---- MODULE Spec2Model ----
(***************************************************************************)
(* A model of envx: per-value AES-256-GCM encryption of a secret set       *)
(* (src/crypto/encrypt.ts, src/crypto/decrypt.ts), the container format    *)
(* module (format/envx-format.ts) and the Envx facade (src/lib/envx.ts).   *)
(*                                                                         *)
(* Buffers are sequences of bytes (0..255).  JavaScript strings are        *)
(* sequences of UTF-16 code units; base64 text is a sequence of sextets    *)
(* (0..63) with 64 standing for the padding character '='.  A JavaScript   *)
(* object used as a map is a function whose DOMAIN is its set of own       *)
(* properties; reads fall back to Object.prototype as in the language.     *)
(***************************************************************************)
EXTENDS Integers, Sequences, FiniteSets, TLC

(***************************************************************************)
(* Bounds of the model.                                                    *)
(***************************************************************************)
\* number of distinct 12-byte outputs the random generator can return
MaxRng == 2
\* number of distinct 32-byte keys
MaxKeys == 2

(***************************************************************************)
(* Program constants.                                                      *)
(***************************************************************************)
KEY_LENGTH == 32
NONCE_LENGTH == 12
TAG_LENGTH == 16
\* a key buffer of the wrong size, as in the test 'rejects invalid key length'
SHORT_KEY_LENGTH == 16
\* randomBytes(16) of the derivation functions
SALT_LENGTH == 16

(***************************************************************************)
(* Names and values of the secret sets.  "__proto__" is the accessor        *)
(* property every object inherits from Object.prototype; as a variable     *)
(* name it matches [A-Za-z_][A-Za-z0-9_]* like the two others.             *)
(***************************************************************************)
NameOrder == <<"API_KEY", "DEBUG", "__proto__">>
Names == {NameOrder[i] : i \in 1..Len(NameOrder)}
ObjectPrototypeNames == {"__proto__"}

\* the values: the empty string and "éa" (a two-byte UTF-8 character, then ASCII)
Values == {<<>>, <<233, 97>>}

SecretSets == UNION {[D -> Values] : D \in SUBSET Names}

(***************************************************************************)
(* JavaScript objects used as maps.                                        *)
(***************************************************************************)
EmptyObject == [n \in {} |-> <<>>]

\* obj[name]: the own property, else the property inherited from
\* Object.prototype (an object, truthy and not a string),
\* else undefined
Get(obj, name) ==
  IF name \in DOMAIN obj THEN [kind |-> "string", str |-> obj[name]]
  ELSE IF name \in ObjectPrototypeNames THEN [kind |-> "object", str |-> <<>>]
  ELSE [kind |-> "undefined", str |-> <<>>]

\* !x for x = obj[name]
Falsy(v) == v.kind = "undefined" \/ (v.kind = "string" /\ v.str = <<>>)

\* obj[name] = str on an object created by {}: the assignment to __proto__
\* reaches the setter of Object.prototype, which ignores a string
Put(obj, name, str) ==
  IF name = "__proto__" /\ name \notin DOMAIN obj THEN obj
  ELSE [n \in DOMAIN obj \cup {name} |-> IF n = name THEN str ELSE obj[n]]

\* Object.entries(obj) / Object.keys(obj): the own properties, in order
RECURSIVE KeysFrom(_, _)
KeysFrom(obj, i) ==
  IF i > Len(NameOrder) THEN <<>>
  ELSE (IF NameOrder[i] \in DOMAIN obj THEN <<NameOrder[i]>> ELSE <<>>)
       \o KeysFrom(obj, i + 1)

ObjectKeys(obj) == KeysFrom(obj, 1)

(***************************************************************************)
(* Buffers and encodings.                                                  *)
(***************************************************************************)
Fill(n, b) == [i \in 1..n |-> b]

RECURSIVE BitXor(_, _)
BitXor(a, b) ==
  IF a = 0 THEN b
  ELSE IF b = 0 THEN a
  ELSE (2 * BitXor(a \div 2, b \div 2)) + ((a + b) % 2)

\* buf.toString('base64')
RECURSIVE Base64Encode(_)
Base64Encode(buf) ==
  IF Len(buf) = 0 THEN <<>>
  ELSE IF Len(buf) = 1
    THEN <<buf[1] \div 4, (buf[1] % 4) * 16, 64, 64>>
  ELSE IF Len(buf) = 2
    THEN <<buf[1] \div 4, ((buf[1] % 4) * 16) + (buf[2] \div 16), (buf[2] % 16) * 4, 64>>
  ELSE <<buf[1] \div 4, ((buf[1] % 4) * 16) + (buf[2] \div 16),
         ((buf[2] % 16) * 4) + (buf[3] \div 64), buf[3] % 64>>
       \o Base64Encode(SubSeq(buf, 4, Len(buf)))

\* the sextets before the first padding character
RECURSIVE BeforePadding(_)
BeforePadding(s) ==
  IF Len(s) = 0 \/ s[1] = 64 THEN <<>>
  ELSE <<s[1]>> \o BeforePadding(Tail(s))

RECURSIVE DecodeSextets(_)
DecodeSextets(s) ==
  IF Len(s) < 2 THEN <<>>
  ELSE IF Len(s) = 2 THEN <<(s[1] * 4) + (s[2] \div 16)>>
  ELSE IF Len(s) = 3
    THEN <<(s[1] * 4) + (s[2] \div 16), ((s[2] % 16) * 16) + (s[3] \div 4)>>
  ELSE <<(s[1] * 4) + (s[2] \div 16), ((s[2] % 16) * 16) + (s[3] \div 4),
         ((s[3] % 4) * 64) + s[4]>>
       \o DecodeSextets(SubSeq(s, 5, Len(s)))

\* Buffer.from(str, 'base64'): lenient, never throws on a string
Base64Decode(str) == DecodeSextets(BeforePadding(str))

\* Buffer.from(str, 'utf8') for code units below 0x800 (one or two bytes)
RECURSIVE Utf8Encode(_)
Utf8Encode(str) ==
  IF Len(str) = 0 THEN <<>>
  ELSE (IF str[1] < 128 THEN <<str[1]>>
        ELSE <<192 + (str[1] \div 64), 128 + (str[1] % 64)>>)
       \o Utf8Encode(Tail(str))

\* buf.toString('utf8'): an ill-formed byte decodes to U+FFFD
RECURSIVE Utf8Decode(_)
Utf8Decode(buf) ==
  IF Len(buf) = 0 THEN <<>>
  ELSE IF buf[1] < 128 THEN <<buf[1]>> \o Utf8Decode(Tail(buf))
  ELSE IF buf[1] >= 194 /\ buf[1] < 224 /\ Len(buf) >= 2
          /\ buf[2] >= 128 /\ buf[2] < 192
    THEN <<((buf[1] - 192) * 64) + (buf[2] - 128)>>
         \o Utf8Decode(SubSeq(buf, 3, Len(buf)))
  ELSE <<65533>> \o Utf8Decode(Tail(buf))

\* buf.toString('binary') / Buffer.from(str, 'binary'): one code unit per byte
BinaryString(buf) == buf
FromBinaryString(str) == [i \in 1..Len(str) |-> str[i] % 256]

(***************************************************************************)
(* AES-256-GCM as Node's crypto module provides it: a counter-mode         *)
(* keystream XORed onto the plaintext and a 16-byte tag over key, nonce    *)
(* and ciphertext.  The keystream and the tag are hash values, so that a   *)
(* changed key, nonce or ciphertext byte changes the tag.                  *)
(***************************************************************************)
\* m^k modulo the prime 32749
RECURSIVE PowMod(_, _)
PowMod(m, k) ==
  IF k = 0 THEN 1
  ELSE IF k % 2 = 0 THEN PowMod((m * m) % 32749, k \div 2)
  ELSE (m * PowMod(m, k - 1)) % 32749

\* the polynomial with coefficients data[lo..hi] (each plus one) at m, modulo 32749
RECURSIVE Poly(_, _, _, _)
Poly(data, lo, hi, m) ==
  IF lo > hi THEN 0
  ELSE IF lo = hi THEN data[lo] + 1
  ELSE LET mid == (lo + hi) \div 2
       IN ((Poly(data, lo, mid, m) * PowMod(m, hi - mid))
            + Poly(data, mid + 1, hi, m)) % 32749

Keystream(key, nonce, i) ==
  LET data == key \o nonce \o <<i>>
  IN Poly(data, 1, Len(data), 251) % 256

GcmTag(key, nonce, ciphertext) ==
  LET data == key \o nonce \o ciphertext
      h1 == Poly(data, 1, Len(data), 257)
      h2 == Poly(data, 1, Len(data), 263)
  IN [j \in 1..TAG_LENGTH |->
        IF j = 1 THEN h1 % 256
        ELSE IF j = 2 THEN h1 \div 256
        ELSE IF j = 3 THEN h2 % 256
        ELSE IF j = 4 THEN h2 \div 256
        ELSE (h1 + (j * h2)) % 256]

\* createCipheriv(ALGORITHM, key, nonce); update; final; getAuthTag
AesGcmEncrypt(key, nonce, plain) ==
  LET ciphertext == [i \in 1..Len(plain) |-> BitXor(plain[i], Keystream(key, nonce, i))]
  IN [ciphertext |-> ciphertext, tag |-> GcmTag(key, nonce, ciphertext)]

\* a decipher that releases the plaintext without comparing the tag
AesGcmDecryptUnverified(key, nonce, tag, ciphertext) ==
  [ok |-> Len(nonce) > 0,
   plain |-> IF Len(nonce) > 0
             THEN [i \in 1..Len(ciphertext) |->
                     BitXor(ciphertext[i], Keystream(key, nonce, i))]
             ELSE <<>>]

\* a decipher created with a built-in key instead of the caller's
AesGcmDecryptFixedKey(key, nonce, tag, ciphertext) ==
  LET fixed == Fill(KEY_LENGTH, 1)
  IN IF Len(nonce) = 0 \/ GcmTag(fixed, nonce, ciphertext) # tag
     THEN [ok |-> FALSE, plain |-> <<>>]
     ELSE [ok |-> TRUE,
           plain |-> [i \in 1..Len(ciphertext) |->
                        BitXor(ciphertext[i], Keystream(fixed, nonce, i))]]

\* createDecipheriv('aes-256-gcm', key, nonce); setAuthTag(tag); update; final:
\* throws on an empty nonce and on a tag that does not verify
AesGcmDecrypt(key, nonce, tag, ciphertext) ==
  IF Len(nonce) = 0 \/ GcmTag(key, nonce, ciphertext) # tag
  THEN [ok |-> FALSE, plain |-> <<>>]
  ELSE [ok |-> TRUE,
        plain |-> [i \in 1..Len(ciphertext) |->
                     BitXor(ciphertext[i], Keystream(key, nonce, i))]]

(***************************************************************************)
(* encryptValues (src/crypto/encrypt.ts).  rng is the sequence of buffers  *)
(* randomBytes(NONCE_LENGTH) returns, one per call.  rngCalls counts the   *)
(* calls made.                                                             *)
(***************************************************************************)
EncryptThrows(rngCalls) ==
  [threw |-> TRUE, error |-> "DecryptionError", nonceMap |-> EmptyObject,
   values |-> EmptyObject, rngCalls |-> rngCalls]

RECURSIVE EncryptLoop(_, _, _, _, _)
EncryptLoop(plaintext, key, rng, names, acc) ==
  IF Len(names) = 0 THEN acc
  ELSE
    LET name == names[1]
        value == plaintext[name]
        nonce == rng[acc.rngCalls + 1]
        sealed == AesGcmEncrypt(key, nonce, Utf8Encode(value))
        ciphertext == BinaryString(sealed.ciphertext)
        combined == sealed.tag \o FromBinaryString(ciphertext)
    IN EncryptLoop(plaintext, key, rng, Tail(names),
         [acc EXCEPT !.nonceMap = Put(@, name, Base64Encode(nonce)),
                     !.values = Put(@, name, Base64Encode(combined)),
                     !.rngCalls = @ + 1])

\* encryptValues without the key length check
EncryptValuesNoKeyCheck(plaintext, key, rng) ==
  EncryptLoop(plaintext, key, rng, ObjectKeys(plaintext),
    [threw |-> FALSE, error |-> "", nonceMap |-> EmptyObject,
     values |-> EmptyObject, rngCalls |-> 0])

encryptValues(plaintext, key, rng) ==
  IF Len(key) # KEY_LENGTH THEN EncryptThrows(0)
  ELSE EncryptLoop(plaintext, key, rng, ObjectKeys(plaintext),
         [threw |-> FALSE, error |-> "", nonceMap |-> EmptyObject,
          values |-> EmptyObject, rngCalls |-> 0])

(***************************************************************************)
(* decryptValues (src/crypto/decrypt.ts).  decipherCalls counts the        *)
(* entries for which a decipher was created.                               *)
(***************************************************************************)
\* one iteration of the loop: [failed, plain, deciphered]
DecryptEntry(name, cipherBase64, nonceMap, key) ==
  LET nonceBase64 == Get(nonceMap, name)
  IN IF Falsy(nonceBase64)
     THEN [failed |-> TRUE, reason |-> "Missing nonce", plain |-> <<>>,
           deciphered |-> 0]
     ELSE IF nonceBase64.kind # "string"
     THEN \* Buffer.from(<not a string>, 'base64') throws a TypeError
          [failed |-> TRUE, reason |-> "Authentication failed", plain |-> <<>>,
           deciphered |-> 0]
     ELSE
       LET nonce == Base64Decode(nonceBase64.str)
           combined == Base64Decode(cipherBase64)
       IN IF Len(combined) < TAG_LENGTH
          THEN [failed |-> TRUE, reason |-> "Invalid ciphertext length",
                plain |-> <<>>, deciphered |-> 0]
          ELSE
            LET tag == SubSeq(combined, 1, TAG_LENGTH)
                ciphertext == SubSeq(combined, TAG_LENGTH + 1, Len(combined))
                opened == AesGcmDecrypt(key, nonce, tag, ciphertext)
            IN IF opened.ok
               THEN [failed |-> FALSE, reason |-> "",
                     plain |-> Utf8Decode(opened.plain), deciphered |-> 1]
               ELSE [failed |-> TRUE, reason |-> "Authentication failed",
                     plain |-> <<>>, deciphered |-> 1]

RECURSIVE DecryptLoop(_, _, _, _, _)
DecryptLoop(encrypted, nonceMap, key, names, acc) ==
  IF Len(names) = 0 THEN acc
  ELSE
    LET name == names[1]
        entry == DecryptEntry(name, encrypted[name], nonceMap, key)
    IN DecryptLoop(encrypted, nonceMap, key, Tail(names),
         [acc EXCEPT !.value = IF entry.failed THEN @ ELSE Put(@, name, entry.plain),
                     !.errors = IF entry.failed THEN @ + 1 ELSE @,
                     !.decipherCalls = @ + entry.deciphered])

DecryptThrows(errors, decipherCalls) ==
  [threw |-> TRUE, error |-> "DecryptionError", value |-> EmptyObject,
   errors |-> errors, decipherCalls |-> decipherCalls]

DecryptStart ==
  [threw |-> FALSE, error |-> "", value |-> EmptyObject, errors |-> 0,
   decipherCalls |-> 0]

\* decryptValues returning the entries that did verify when others failed
DecryptValuesPartial(encrypted, nonceMap, key) ==
  IF Len(key) # KEY_LENGTH THEN DecryptThrows(0, 0)
  ELSE DecryptLoop(encrypted, nonceMap, key, ObjectKeys(encrypted), DecryptStart)

decryptValues(encrypted, nonceMap, key) ==
  IF Len(key) # KEY_LENGTH THEN DecryptThrows(0, 0)
  ELSE
    LET done == DecryptLoop(encrypted, nonceMap, key, ObjectKeys(encrypted), DecryptStart)
    IN IF done.errors > 0 THEN DecryptThrows(done.errors, done.decipherCalls)
       ELSE done

(***************************************************************************)
(* The container format module (format/envx-format.ts, whose text is in    *)
(* src/index.ts lines 27-97).  A JSON value of a field is a record         *)
(* [t, n, s]: t is "absent", "number" or "string".  A map field is         *)
(* [present, obj].                                                         *)
(***************************************************************************)
Absent == [t |-> "absent", n |-> 0, s |-> ""]
JNumber(n) == [t |-> "number", n |-> n, s |-> ""]
JString(str) == [t |-> "string", n |-> 0, s |-> str]

CURRENT_VERSION == 1
CIPHER == "aes-256-gcm"

\* a map field that is missing
NoMap == [present |-> FALSE, obj |-> EmptyObject]
JMap(obj) == [present |-> TRUE, obj |-> obj]

\* base64 strings a container may hold under a name: the empty string, a
\* 12-byte nonce, a buffer a quarter of that length ("AQEB"), a tag with no
\* ciphertext after it
NonceStrings ==
  {<<>>, Base64Encode(Fill(NONCE_LENGTH, 1)), Base64Encode(Fill(NONCE_LENGTH \div 4, 1))}
ValueStrings == {<<>>, Base64Encode(Fill(TAG_LENGTH, 2))}

VersionFields == {Absent, JNumber(CURRENT_VERSION), JNumber(2), JString("1")}
CipherFields == {Absent, JString(CIPHER), JString("xchacha20-poly1305")}
KdfFields == {Absent, JString("none"), JString("argon2id")}

\* kdf.salt: missing, or a base64 string
NoSalt == [present |-> FALSE, str |-> <<>>]
JSalt(str) == [present |-> TRUE, str |-> str]
\* a salt of 16 bytes, and the string 'salt' of the facade's tests (the
\* sextets of s, a, l, t), which decodes to 3 bytes
SaltFields == {NoSalt, JSalt(Base64Encode(Fill(SALT_LENGTH, 3))), JSalt(<<44, 26, 37, 45>>)}
NonceMapFields == {NoMap} \cup {JMap(m) : m \in UNION {[D -> NonceStrings] : D \in SUBSET Names}}
ValuesFields == {NoMap} \cup {JMap(m) : m \in UNION {[D -> ValueStrings] : D \in SUBSET Names}}

\* the objects JSON.parse can hand to validateEnvx
Candidates ==
  {d \in [version : VersionFields, cipher : CipherFields, kdf : KdfFields,
          salt : SaltFields, nonce_map : NonceMapFields, values : ValuesFields] :
     d.kdf = Absent => d.salt = NoSalt}

\* validateFn = ajv.compile(schema): the required top-level fields are present
\* with their primitive types and kdf.type is one of the three known types.
\* What the schema says beyond that about the values of version and cipher
\* is left open here: validateEnvx checks both again after the schema.
\* A kdf of type argon2id or scrypt carries a salt string (type EnvxKdf).
validateFn(data) ==
  /\ data.version.t = "number"
  /\ data.cipher.t = "string"
  /\ data.kdf \in {JString("none"), JString("argon2id"), JString("scrypt")}
  /\ (data.kdf # JString("none")) => data.salt.present
  /\ data.nonce_map.present
  /\ data.values.present

Rejected(message) == [accepted |-> FALSE, error |-> "ValidationError", message |-> message]
Accepted == [accepted |-> TRUE, error |-> "", message |-> ""]

\* validateEnvx without its checks of version and cipher
ValidateEnvxAnyVersion(data) ==
  IF ~validateFn(data) THEN Rejected("Invalid envx file")
  ELSE IF \E k \in DOMAIN data.values.obj : Falsy(Get(data.nonce_map.obj, k))
    THEN Rejected("Missing nonce for key")
  ELSE IF \E k \in DOMAIN data.nonce_map.obj : Falsy(Get(data.values.obj, k))
    THEN Rejected("Missing ciphertext for key")
  ELSE Accepted

validateEnvx(data) ==
  IF ~validateFn(data) THEN Rejected("Invalid envx file")
  ELSE IF \E k \in DOMAIN data.values.obj : Falsy(Get(data.nonce_map.obj, k))
    THEN Rejected("Missing nonce for key")
  ELSE IF \E k \in DOMAIN data.nonce_map.obj : Falsy(Get(data.values.obj, k))
    THEN Rejected("Missing ciphertext for key")
  ELSE IF data.version # JNumber(1) THEN Rejected("Unsupported version")
  ELSE IF data.cipher # JString("aes-256-gcm") THEN Rejected("Unsupported cipher")
  ELSE Accepted

\* no file object
NoFile ==
  [version |-> Absent, cipher |-> Absent, kdf |-> Absent, salt |-> NoSalt,
   nonce_map |-> NoMap, values |-> NoMap]

\* a text handed to parseEnvx: not JSON at all, or the JSON text of data
JsonTexts == {[wellFormed |-> FALSE, data |-> d] :
                d \in {[version |-> Absent, cipher |-> Absent, kdf |-> Absent,
                        salt |-> NoSalt, nonce_map |-> NoMap, values |-> NoMap]}}
             \cup {[wellFormed |-> TRUE, data |-> d] : d \in Candidates}

parseEnvx(json) ==
  IF ~json.wellFormed THEN Rejected("Invalid JSON") ELSE validateEnvx(json.data)

\* a builder that returns the payload as it is
BuildEnvxFileUnstamped(payload) ==
  [version |-> payload.version, cipher |-> payload.cipher, kdf |-> payload.kdf,
   salt |-> payload.salt, nonce_map |-> payload.nonce_map, values |-> payload.values]

\* ({ version: 1, cipher: 'aes-256-gcm', ...payload }): the fields the payload
\* carries are spread after the two literals, and replace them
buildEnvxFile(payload) ==
  [version |-> IF payload.version # Absent THEN payload.version
               ELSE JNumber(1),
   cipher |-> IF payload.cipher # Absent THEN payload.cipher
              ELSE JString("aes-256-gcm"),
   kdf |-> payload.kdf,
   salt |-> payload.salt,
   nonce_map |-> payload.nonce_map,
   values |-> payload.values]

(***************************************************************************)
(* The Envx facade (src/lib/envx.ts, first definition of the class).  The  *)
(* file system maps a path to [exists, bytes].  A call is a record with    *)
(* its position: init suspends once, at await deriveKey(...), between its  *)
(* existence check and its write.                                          *)
(***************************************************************************)
\* number of calls made on the instance, which may overlap at their awaits
MaxCalls == 2

DEFAULT_KEY_PATH == ".envx.key"
NEW_KEY_PATH == ".envx.key.new"
Paths == {DEFAULT_KEY_PATH, NEW_KEY_PATH}

NoSuchFile == [exists |-> FALSE, bytes |-> <<>>]
FileOf(bytes) == [exists |-> TRUE, bytes |-> bytes]

\* the password argument: undefined, or a buffer (possibly of length zero)
NoPassword == [given |-> FALSE, buf |-> <<>>]
Passwords == {NoPassword, [given |-> TRUE, buf |-> <<>>], [given |-> TRUE, buf |-> <<112, 119>>]}

\* deriveKey(password, 'argon2id'): 32 bytes determined by password and salt
DerivedKey(password, salt) ==
  LET data == password \o salt
  IN Fill(KEY_LENGTH, Poly(data, 1, Len(data), 269) % 256)

Calls == 1..MaxCalls

\* a call not yet made.  held is the sequence of key buffers the call has
\* obtained (from readFileSync of the key file or from randomBytes), with
\* their current contents; secrets is the secret set the call works on;
\* sealed is what encryptValues returned, opened what decryptValues returned;
\* alone says that no other call has run between the start of this one and now.
NoCall ==
  [op |-> "none", pc |-> "idle", result |-> "", message |-> "",
   password |-> <<>>, salt |-> <<>>,
   newKeyPath |-> "", oldKeyPath |-> "", held |-> <<>>, secrets |-> EmptyObject,
   sealed |-> [threw |-> FALSE, error |-> "", nonceMap |-> EmptyObject,
               values |-> EmptyObject, rngCalls |-> 0],
   opened |-> DecryptStart, valid |-> FALSE, alone |-> TRUE]

\* init with the existence check left out
InitBeginUnchecked(files, path, mode, password, random, salt) ==
  IF mode = "random"
  THEN [fs |-> [files EXCEPT ![path] = FileOf(random)],
        call |-> [NoCall EXCEPT !.op = "init", !.pc = "done", !.result = "ok"]]
  ELSE IF ~password.given
  THEN [fs |-> files,
        call |-> [NoCall EXCEPT !.op = "init", !.pc = "done",
                                !.result = "ValidationError",
                                !.message = "Password required"]]
  ELSE [fs |-> files,
        call |-> [NoCall EXCEPT !.op = "init", !.pc = "await deriveKey",
                                !.password = password.buf, !.salt = salt]]

\* init up to its return, its throw or its await (lines 20-40): random is
\* what randomBytes(32) returns, salt what randomBytes(16) returns in deriveKey
InitBegin(files, path, mode, password, random, salt) ==
  IF files[path].exists
  THEN [fs |-> files,
        call |-> [NoCall EXCEPT !.op = "init", !.pc = "done",
                                !.result = "FileExistsError",
                                !.message = "Key file already exists"]]
  ELSE IF mode = "random"
  THEN [fs |-> [files EXCEPT ![path] = FileOf(random)],
        call |-> [NoCall EXCEPT !.op = "init", !.pc = "done", !.result = "ok"]]
  ELSE IF ~password.given
  THEN [fs |-> files,
        call |-> [NoCall EXCEPT !.op = "init", !.pc = "done",
                                !.result = "ValidationError",
                                !.message = "Password required"]]
  ELSE [fs |-> files,
        call |-> [NoCall EXCEPT !.op = "init", !.pc = "await deriveKey",
                                !.password = password.buf, !.salt = salt]]

\* init after await deriveKey(...) (lines 40-44): the derived key is written
InitResume(files, path, call) ==
  [fs |-> [files EXCEPT ![path] = FileOf(DerivedKey(call.password, call.salt))],
   call |-> [call EXCEPT !.pc = "done", !.result = "ok"]]

(***************************************************************************)
(* encrypt, decrypt, rotateKey and verify.  The .env file is given by its  *)
(* lines NAME=value, already trimmed and unquoted; the container file by   *)
(* the JSON text it holds.  Each operator is one stretch of a call that    *)
(* runs without suspending: from the call to its first await, or from one  *)
(* await to the next or to the return.                                     *)
(***************************************************************************)
NoEnv == [exists |-> FALSE, lines |-> <<>>]
EnvOf(lines) == [exists |-> TRUE, lines |-> lines]

NoContainer == [exists |-> FALSE, json |-> [wellFormed |-> FALSE, data |-> NoFile]]
ContainerOf(json) == [exists |-> TRUE, json |-> json]

\* the loop over envContent.split('\n') (lines 53-75): plaintext[key] = value
\* for every line with a name, later lines replacing earlier ones
RECURSIVE ParseEnv(_, _)
ParseEnv(lines, acc) ==
  IF Len(lines) = 0 THEN acc
  ELSE ParseEnv(Tail(lines),
         IF lines[1].name # "" THEN Put(acc, lines[1].name, lines[1].value) ELSE acc)

\* JSON.stringify(envxFile, null, 2): the text whose JSON.parse gives back
\* the own properties of envxFile
JsonStringify(envxFile) == [wellFormed |-> TRUE, data |-> envxFile]

\* wipeBuffer(key): the buffer obtained last is filled with zeros
WipeBuffer(held) == [held EXCEPT ![Len(held)] = Fill(Len(@), 0)]

\* a call ends by throwing
Throw(call, error, message) ==
  [call EXCEPT !.pc = "done", !.result = error, !.message = message]

\* loadKey that makes up a key when there is no key file
LoadKeyOrDefault(files, path) ==
  IF ~files[path].exists
  THEN [threw |-> FALSE, error |-> "", message |-> "",
        key |-> Fill(KEY_LENGTH, 0), held |-> <<Fill(KEY_LENGTH, 0)>>]
  ELSE IF Len(files[path].bytes) # KEY_LENGTH
  THEN [threw |-> TRUE, error |-> "ValidationError", message |-> "Invalid key file",
        key |-> <<>>, held |-> <<files[path].bytes>>]
  ELSE [threw |-> FALSE, error |-> "", message |-> "",
        key |-> files[path].bytes, held |-> <<files[path].bytes>>]

\* loadKey without the check of the length
LoadKeyAnyLength(files, path) ==
  IF ~files[path].exists
  THEN [threw |-> TRUE, error |-> "MissingKeyError", message |-> "Key file not found",
        key |-> <<>>, held |-> <<>>]
  ELSE [threw |-> FALSE, error |-> "", message |-> "",
        key |-> files[path].bytes, held |-> <<files[path].bytes>>]

\* loadKey (lines 115-127); held is the buffer readFileSync returned, if any
loadKey(files, path) ==
  IF ~files[path].exists
  THEN [threw |-> TRUE, error |-> "MissingKeyError", message |-> "Key file not found",
        key |-> <<>>, held |-> <<>>]
  ELSE IF Len(files[path].bytes) # KEY_LENGTH
  THEN [threw |-> TRUE, error |-> "ValidationError", message |-> "Invalid key file",
        key |-> <<>>, held |-> <<files[path].bytes>>]
  ELSE [threw |-> FALSE, error |-> "", message |-> "",
        key |-> files[path].bytes, held |-> <<files[path].bytes>>]

\* what a stretch of a call leaves behind: the key files, the container
\* file, this.keyPath and the call itself
After(files, envx, path, call) ==
  [fs |-> files, envx |-> envx, keyPath |-> path, call |-> call]

\* encrypt up to await encryptValues(plaintext, key) (lines 47-82)
EncryptBegin(files, env, envx, path, rng) ==
  LET call == [NoCall EXCEPT !.op = "encrypt"]
  IN IF ~env.exists
     THEN After(files, envx, path,
                Throw(call, "ValidationError", "Input file not found"))
     ELSE
       LET secrets == ParseEnv(env.lines, EmptyObject)
           loaded == loadKey(files, path)
       IN IF loaded.threw
          THEN After(files, envx, path,
                     [Throw(call, loaded.error, loaded.message)
                        EXCEPT !.secrets = secrets, !.held = loaded.held])
          ELSE After(files, envx, path,
                     [call EXCEPT !.pc = "await encryptValues", !.secrets = secrets,
                                  !.held = loaded.held,
                                  !.sealed = encryptValues(secrets, loaded.key, rng)])

\* what encrypt and rotateKey hand to buildEnvxFile
Payload(sealed) ==
  [version |-> Absent, cipher |-> Absent, kdf |-> JString("none"), salt |-> NoSalt,
   nonce_map |-> JMap(sealed.nonceMap), values |-> JMap(sealed.values)]

\* encrypt after await encryptValues (lines 82-96), and rotateKey after its
\* await encryptValues (lines 147-162): wipe the key, build, write.
\* writable says whether writeFileSync can write the container file; it
\* throws the system's error when it cannot
EncryptResume(files, envx, path, call, writable) ==
  IF call.sealed.threw
  THEN After(files, envx, path, Throw(call, call.sealed.error, "Invalid key length"))
  ELSE IF ~writable
  THEN After(files, envx, path,
             [Throw(call, "Error", "EACCES: permission denied")
                EXCEPT !.held = WipeBuffer(@)])
  ELSE After(files,
             ContainerOf(JsonStringify(buildEnvxFile(Payload(call.sealed)))),
             path,
             [call EXCEPT !.pc = "done", !.result = "ok", !.held = WipeBuffer(@)])

\* decrypt up to await decryptValues(...) (lines 99-107); call says on whose
\* behalf: decrypt itself, or rotateKey at line 138
DecryptBegin(call, files, envx, path) ==
  IF ~envx.exists
  THEN After(files, envx, path, Throw(call, "ValidationError", "Input file not found"))
  ELSE
    LET parsed == parseEnvx(envx.json)
        loaded == loadKey(files, path)
    IN IF ~parsed.accepted
       THEN After(files, envx, path, Throw(call, parsed.error, parsed.message))
       ELSE IF loaded.threw
       THEN After(files, envx, path,
                  [Throw(call, loaded.error, loaded.message) EXCEPT !.held = loaded.held])
       ELSE After(files, envx, path,
                  [call EXCEPT !.pc = "await decryptValues", !.held = loaded.held,
                               !.opened = decryptValues(envx.json.data.values.obj,
                                                        envx.json.data.nonce_map.obj,
                                                        loaded.key)])

\* decrypt that caches the key it read at the path of the container
DecryptResumeCaching(files, envx, path, call, next) ==
  IF call.opened.threw
  THEN After(files, envx, path, Throw(call, call.opened.error, "Decryption failed"))
  ELSE After(files, ContainerOf([wellFormed |-> FALSE, data |-> NoFile]), path,
             [call EXCEPT !.pc = next, !.result = IF next = "done" THEN "ok" ELSE "",
                          !.held = WipeBuffer(@), !.secrets = call.opened.value])

\* decrypt after await decryptValues (lines 107-112); next is "done" for
\* decrypt and "await this.decrypt" for rotateKey
DecryptResume(files, envx, path, call, next) ==
  IF call.opened.threw
  THEN After(files, envx, path, Throw(call, call.opened.error, "Decryption failed"))
  ELSE After(files, envx, path,
             [call EXCEPT !.pc = next, !.result = IF next = "done" THEN "ok" ELSE "",
                          !.held = WipeBuffer(@), !.secrets = call.opened.value])

\* rotateKey with the check of newKeyPath left out
RotateKeyBeginUnchecked(files, envx, path, newKeyPath) ==
  LET call == [NoCall EXCEPT !.op = "rotateKey", !.newKeyPath = newKeyPath]
  IN IF ~envx.exists
     THEN After(files, envx, path, Throw(call, "ValidationError", "Envx file not found"))
     ELSE DecryptBegin(call, files, envx, path)

\* rotateKey up to the await inside this.decrypt (lines 129-138)
RotateKeyBegin(files, envx, path, newKeyPath) ==
  LET call == [NoCall EXCEPT !.op = "rotateKey", !.newKeyPath = newKeyPath]
  IN IF files[newKeyPath].exists
     THEN After(files, envx, path,
                Throw(call, "FileExistsError", "New key path already exists"))
     ELSE IF ~envx.exists
     THEN After(files, envx, path, Throw(call, "ValidationError", "Envx file not found"))
     ELSE DecryptBegin(call, files, envx, path)

\* rotateKey re-encrypting with the key at the old path
RotateKeyContinueOldKey(files, envx, path, call, random, rng) ==
  LET written == [files EXCEPT ![call.newKeyPath] = FileOf(random)]
      loaded == loadKey(written, path)
  IN After(written, envx, call.newKeyPath,
           IF loaded.threw
           THEN [Throw(call, loaded.error, loaded.message)
                   EXCEPT !.oldKeyPath = path,
                          !.held = @ \o <<random>> \o loaded.held]
           ELSE [call EXCEPT !.pc = "await encryptValues", !.oldKeyPath = path,
                             !.held = @ \o <<random>> \o loaded.held,
                             !.sealed = encryptValues(call.secrets, loaded.key, rng)])

\* rotateKey from the return of this.decrypt to await encryptValues (lines
\* 138-147): random is what randomBytes(32) returns
RotateKeyContinue(files, envx, path, call, random, rng) ==
  LET written == [files EXCEPT ![call.newKeyPath] = FileOf(random)]
      loaded == loadKey(written, call.newKeyPath)
  IN After(written, envx, call.newKeyPath,
           IF loaded.threw
           THEN [Throw(call, loaded.error, loaded.message)
                   EXCEPT !.oldKeyPath = path,
                          !.held = @ \o <<random>> \o loaded.held]
           ELSE [call EXCEPT !.pc = "await encryptValues", !.oldKeyPath = path,
                             !.held = @ \o <<random>> \o loaded.held,
                             !.sealed = encryptValues(call.secrets, loaded.key, rng)])

\* verify that loads the key before it parses
VerifyWithKey(files, envx, path) ==
  After(files, envx, path,
        [NoCall EXCEPT !.op = "verify", !.pc = "done", !.result = "ok",
                       !.valid = /\ envx.exists
                                 /\ ~loadKey(files, path).threw
                                 /\ parseEnvx(envx.json).accepted])

\* verify (lines 165-180)
Verify(files, envx, path) ==
  LET call == [NoCall EXCEPT !.op = "verify", !.pc = "done", !.result = "ok"]
  IN IF ~envx.exists
     THEN After(files, envx, path,
                [call EXCEPT !.valid = FALSE, !.message = "File not found"])
     ELSE LET parsed == parseEnvx(envx.json)
          IN IF parsed.accepted
             THEN After(files, envx, path, [call EXCEPT !.valid = TRUE])
             ELSE After(files, envx, path,
                        [call EXCEPT !.valid = FALSE, !.message = parsed.message])

(***************************************************************************)
(* The key derivation module (src/crypto/kdf.ts, lines 1-124), and the     *)
(* version of the same module in src/unnamed/part_012, whose default       *)
(* parameters carry a salt.  The parameters of both algorithms are one     *)
(* record; the fields of the other algorithm are 0.  A salt argument is    *)
(* the caller's buffer, or undefined.                                      *)
(***************************************************************************)
\* number of derivations made in one process
MaxDerivations == 2

NoSaltBuffer == [given |-> FALSE, buf |-> <<>>]
SaltBuffer(buf) == [given |-> TRUE, buf |-> buf]

\* randomBytes(n), the k-th draw of the process: no two draws are equal
RandomBytes(n, k) == Fill(n, k)

\* params is undefined
NoParams ==
  [defined |-> FALSE, memory |-> 0, time |-> 0, parallelism |-> 0,
   N |-> 0, r |-> 0, p |-> 0, dkLen |-> 0, salt |-> NoSaltBuffer]

DEFAULT_ARGON2_PARAMS ==
  [defined |-> TRUE, memory |-> 65536, time |-> 3, parallelism |-> 1,
   N |-> 0, r |-> 0, p |-> 0, dkLen |-> 0, salt |-> NoSaltBuffer]

DEFAULT_SCRYPT_PARAMS ==
  [defined |-> TRUE, memory |-> 0, time |-> 0, parallelism |-> 0,
   N |-> 32768, r |-> 8, p |-> 1, dkLen |-> KEY_LENGTH, salt |-> NoSaltBuffer]

\* what both libraries compute: len bytes determined by the password, the
\* salt and the cost parameters
Stretch(password, salt, cost, len) ==
  LET data == password \o salt \o cost
  IN Fill(len, Poly(data, 1, Len(data), 269) % 256)

RECURSIVE IsPowerOfTwo(_)
IsPowerOfTwo(n) ==
  IF n < 2 THEN n = 1
  ELSE (n % 2 = 0) /\ IsPowerOfTwo(n \div 2)

\* argon2.hash(password, {salt, memoryCost, timeCost, parallelism, hashLength,
\* raw: true}): the library refuses a time cost below 1
argon2Hash(password, salt, params, hashLength) ==
  IF params.time < 1 THEN [threw |-> TRUE, key |-> <<>>]
  ELSE [threw |-> FALSE,
        key |-> Stretch(password, salt,
                        <<params.memory, params.time, params.parallelism>>, hashLength)]

\* scrypt(password, salt, keylen, {N, r, p}): N is a power of two above 1
scrypt(password, salt, keylen, params) ==
  IF params.N < 2 \/ ~IsPowerOfTwo(params.N) THEN [threw |-> TRUE, key |-> <<>>]
  ELSE [threw |-> FALSE,
        key |-> Stretch(password, salt, <<params.N, params.r, params.p>>, keylen)]

\* wipeBuffer(params.salt): nothing for undefined, else the buffer is
\* filled with zeros
WipeSalt(salt) ==
  IF ~salt.given THEN salt ELSE SaltBuffer(Fill(Len(salt.buf), 0))

NoMeta == [type |-> "", salt |-> <<>>, params |-> NoParams]

\* a derivation ends by throwing KdfError
KdfFailed(message) ==
  [threw |-> TRUE, error |-> "KdfError", message |-> message, key |-> <<>>,
   salt |-> <<>>, meta |-> NoMeta]

\* what a derivation returns.  salt is the content of the returned buffer
\* as the caller reads it after the call
KdfResult(key, salt, meta) ==
  [threw |-> FALSE, error |-> "", message |-> "", key |-> key, salt |-> salt,
   meta |-> meta]

\* the outcome of a call: its result, the caller's salt buffer after the
\* call, and the number of randomBytes draws made so far
Returned(result, callerSalt, draws) ==
  [result |-> result, callerSalt |-> callerSalt, draws |-> draws]

\* deriveKeyArgon2id (kdf.ts lines 48-81).  The returned salt is the
\* buffer params.salt itself when one was supplied, so it reads as the
\* finally clause left it
deriveKeyArgon2id(password, params0, draws) ==
  LET params == IF params0.defined THEN params0 ELSE DEFAULT_ARGON2_PARAMS
      generated == ~params.salt.given
      salt == IF generated THEN RandomBytes(SALT_LENGTH, draws + 1) ELSE params.salt.buf
      drawn == IF generated THEN draws + 1 ELSE draws
      hashed == argon2Hash(password, salt, params, KEY_LENGTH)
      wiped == WipeSalt(params.salt)
  IN IF hashed.threw
     THEN Returned(KdfFailed("Argon2id derivation failed"), wiped, drawn)
     ELSE Returned(
            KdfResult(hashed.key,
                      IF generated THEN salt ELSE wiped.buf,
                      [type |-> "argon2id", salt |-> Base64Encode(salt),
                       params |-> [params EXCEPT !.salt = NoSaltBuffer]]),
            wiped, drawn)

\* deriveKeyScrypt whose key always has 32 bytes
DeriveKeyScryptFixedLength(password, params0, draws) ==
  LET params == IF params0.defined THEN params0 ELSE DEFAULT_SCRYPT_PARAMS
      generated == ~params.salt.given
      salt == IF generated THEN RandomBytes(SALT_LENGTH, draws + 1) ELSE params.salt.buf
      drawn == IF generated THEN draws + 1 ELSE draws
      hashed == scrypt(password, salt, KEY_LENGTH, params)
      wiped == WipeSalt(params.salt)
  IN IF hashed.threw
     THEN Returned(KdfFailed("scrypt derivation failed"), wiped, drawn)
     ELSE Returned(
            KdfResult(hashed.key,
                      IF generated THEN salt ELSE wiped.buf,
                      [type |-> "scrypt", salt |-> Base64Encode(salt),
                       params |-> [params EXCEPT !.salt = NoSaltBuffer]]),
            wiped, drawn)

\* deriveKeyScrypt (kdf.ts lines 83-113)
deriveKeyScrypt(password, params0, draws) ==
  LET params == IF params0.defined THEN params0 ELSE DEFAULT_SCRYPT_PARAMS
      generated == ~params.salt.given
      salt == IF generated THEN RandomBytes(SALT_LENGTH, draws + 1) ELSE params.salt.buf
      drawn == IF generated THEN draws + 1 ELSE draws
      hashed == scrypt(password, salt, params.dkLen, params)
      wiped == WipeSalt(params.salt)
  IN IF hashed.threw
     THEN Returned(KdfFailed("scrypt derivation failed"), wiped, drawn)
     ELSE Returned(
            KdfResult(hashed.key,
                      IF generated THEN salt ELSE wiped.buf,
                      [type |-> "scrypt", salt |-> Base64Encode(salt),
                       params |-> [params EXCEPT !.salt = NoSaltBuffer]]),
            wiped, drawn)

\* deriveKey (kdf.ts lines 115-124)
deriveKey(password, type, params, draws) ==
  IF type = "argon2id" THEN deriveKeyArgon2id(password, params, draws)
  ELSE deriveKeyScrypt(password, params, draws)

\* part_012: the default parameters, each with the salt drawn when the
\* module is loaded (lines 11-24): the first and the second draw of the process
DEFAULT_ARGON2_PARAMS_part012 ==
  [DEFAULT_ARGON2_PARAMS EXCEPT !.salt = SaltBuffer(RandomBytes(SALT_LENGTH, 1))]
DEFAULT_SCRYPT_PARAMS_part012 ==
  [DEFAULT_SCRYPT_PARAMS EXCEPT !.salt = SaltBuffer(RandomBytes(SALT_LENGTH, 2))]

\* { ...defaults, ...params } for params that carry all cost fields and
\* possibly a salt, or are undefined
Merged(defaults, params) ==
  IF ~params.defined THEN defaults
  ELSE [params EXCEPT !.salt = IF params.salt.given THEN params.salt ELSE defaults.salt]

\* part_012 deriveKeyArgon2id (lines 43-70): mergedParams.salt || randomBytes(16);
\* no hashLength is passed and the library's default is 32
deriveKeyArgon2id_part012(password, params, draws) ==
  LET mergedParams == Merged(DEFAULT_ARGON2_PARAMS_part012, params)
      generated == ~mergedParams.salt.given
      saltBuf == IF generated THEN RandomBytes(SALT_LENGTH, draws + 1)
                 ELSE mergedParams.salt.buf
      drawn == IF generated THEN draws + 1 ELSE draws
      hashed == argon2Hash(password, saltBuf, mergedParams, KEY_LENGTH)
  IN IF hashed.threw
     THEN Returned(KdfFailed("Argon2id key derivation failed"), params.salt, drawn)
     ELSE Returned(
            KdfResult(hashed.key, saltBuf,
                      [type |-> "argon2id", salt |-> Base64Encode(saltBuf),
                       params |-> [mergedParams EXCEPT !.salt = SaltBuffer(saltBuf)]]),
            params.salt, drawn)

\* part_012 deriveKeyScrypt (lines 79-103)
deriveKeyScrypt_part012(password, params, draws) ==
  LET mergedParams == Merged(DEFAULT_SCRYPT_PARAMS_part012, params)
      generated == ~mergedParams.salt.given
      saltBuf == IF generated THEN RandomBytes(SALT_LENGTH, draws + 1)
                 ELSE mergedParams.salt.buf
      drawn == IF generated THEN draws + 1 ELSE draws
      hashed == scrypt(password, saltBuf, mergedParams.dkLen, mergedParams)
  IN IF hashed.threw
     THEN Returned(KdfFailed("Scrypt key derivation failed"), params.salt, drawn)
     ELSE Returned(
            KdfResult(hashed.key, saltBuf,
                      [type |-> "scrypt", salt |-> Base64Encode(saltBuf),
                       params |-> [mergedParams EXCEPT !.salt = SaltBuffer(saltBuf)]]),
            params.salt, drawn)

\* part_012 deriveKey (lines 111-121): no parameters are passed on
deriveKey_part012(password, method, draws) ==
  IF method = "scrypt" THEN deriveKeyScrypt_part012(password, NoParams, draws)
  ELSE deriveKeyArgon2id_part012(password, NoParams, draws)

(***************************************************************************)
(* encrypt with its two path arguments (envx.ts lines 47-97).  A path of a *)
(* text file is the sequence of its dot-separated parts: '.env.dev' is     *)
(* <<".env", ".dev">>, so that a path ends in '.env' exactly when its last *)
(* part is ".env".  A text file holds lines NAME=value or a JSON text.     *)
(***************************************************************************)
DOT_ENV == <<".env">>
DOT_ENVX == <<".envx">>
DOT_ENV_DEV == <<".env", ".dev">>
DOT_ENVX_DEV == <<".envx", ".dev">>
TextPaths == {DOT_ENV, DOT_ENVX, DOT_ENV_DEV, DOT_ENVX_DEV}

\* outputPath is undefined
NoOutputPath == <<>>

NoText ==
  [exists |-> FALSE, kind |-> "", lines |-> <<>>,
   json |-> [wellFormed |-> FALSE, data |-> NoFile]]
EnvText(lines) ==
  [exists |-> TRUE, kind |-> "env", lines |-> lines,
   json |-> [wellFormed |-> FALSE, data |-> NoFile]]
JsonText(json) ==
  [exists |-> TRUE, kind |-> "json", lines |-> <<>>, json |-> json]

\* the file at envFile as encrypt reads it
EnvOfText(text) == IF text.exists THEN EnvOf(text.lines) ELSE NoEnv

\* envFile.replace(/\.env$/, '.envx')
ReplaceEnvSuffix(envFile) ==
  IF envFile[Len(envFile)] = ".env"
  THEN [envFile EXCEPT ![Len(envFile)] = ".envx"]
  ELSE envFile

\* outputPath ?? envFile.replace(/\.env$/, '.envx') (line 92)
OutputPath(envFile, outputPath) ==
  IF outputPath # NoOutputPath THEN outputPath ELSE ReplaceEnvSuffix(envFile)

\* the outcome of a stretch of encrypt on the text files
AfterText(texts, call) == [texts |-> texts, call |-> call]

\* encrypt(envFile, outputPath) up to await encryptValues
EncryptPathsBegin(files, texts, path, envFile, rng) ==
  AfterText(texts,
            EncryptBegin(files, EnvOfText(texts[envFile]), NoContainer, path, rng).call)

\* encrypt(envFile, outputPath) after await encryptValues: the container is
\* written at the output path
EncryptPathsResume(files, texts, path, call, envFile, outputPath, writable) ==
  LET step == EncryptResume(files, NoContainer, path, call, writable)
  IN IF step.call.result = "ok"
     THEN AfterText([texts EXCEPT ![OutputPath(envFile, outputPath)] =
                                     JsonText(step.envx.json)],
                    step.call)
     ELSE AfterText(texts, step.call)

(***************************************************************************)
(* envx run (src/cli/commands/run.ts).  The process is [pc, cmdArgs,       *)
(* spawned, childEnv, exited, exitCode].                                   *)
(***************************************************************************)
NoProcess ==
  [pc |-> "idle", cmdArgs |-> <<>>, spawned |-> FALSE, childEnv |-> EmptyObject,
   exited |-> FALSE, exitCode |-> 0]

\* process.exit(code)
Exit(proc, code) == [proc EXCEPT !.pc = "exited", !.exited = TRUE, !.exitCode = code]

\* the outcome of a stretch of runCommand
AfterRun(proc, path, call) == [proc |-> proc, keyPath |-> path, call |-> call]

\* runCommand up to the await inside envx.decrypt (lines 20-39)
RunCommandBegin(files, envx, path, cmdArgs, keyPathArg) ==
  LET proc == [NoProcess EXCEPT !.cmdArgs = cmdArgs]
  IN IF Len(cmdArgs) = 0 THEN AfterRun(Exit(proc, 1), path, NoCall)
     ELSE IF ~envx.exists THEN AfterRun(Exit(proc, 1), path, NoCall)
     ELSE AfterRun([proc EXCEPT !.pc = "await envx.decrypt"], keyPathArg,
                   DecryptBegin([NoCall EXCEPT !.op = "decrypt"], files, envx,
                                keyPathArg).call)

\* runCommand that spawns the child whatever envx.decrypt did
RunCommandResumeAlways(proc, call) ==
  [proc EXCEPT !.pc = "child running", !.spawned = TRUE, !.childEnv = call.secrets]

\* runCommand from the return of envx.decrypt (lines 39-68), or its catch
\* clause (lines 69-79) when envx.decrypt threw
RunCommandResume(proc, call) ==
  IF call.result = "ok"
  THEN [proc EXCEPT !.pc = "child running", !.spawned = TRUE, !.childEnv = call.secrets]
  ELSE Exit(proc, 1)

\* the child's exit event (lines 60-68): signal is "" when the child ended
\* by itself, and code is -1 for null
ChildExit(proc, code, signal) ==
  IF signal # "" THEN Exit(proc, 128 + (IF signal = "SIGTERM" THEN 15 ELSE 1))
  ELSE Exit(proc, IF code = -1 THEN 0 ELSE code)

\* the child's error event (lines 54-58)
ChildError(proc) == Exit(proc, 1)

(***************************************************************************)
(* State.  The cipher module, the format module and the facade are driven  *)
(* by separate specifications; each leaves the variables of the others     *)
(* unchanged.                                                              *)
(***************************************************************************)
VARIABLES
  plaintext,   \* the secret set handed to encryptValues
  key,         \* the key handed to encryptValues
  encOut,      \* what encryptValues returned or threw
  nonceMapIn,  \* the stored nonce map, handed to decryptValues
  valuesIn,    \* the stored value map, handed to decryptValues
  tamper,      \* what was altered in the stored container, and for which name
  decKey,      \* the key handed to decryptValues
  decOut,      \* what decryptValues returned or threw
  cpc          \* "start", "encrypted", "tampered", "decrypted"

cryptoVars == <<plaintext, key, encOut, nonceMapIn, valuesIn, tamper, decKey, decOut, cpc>>

VARIABLES
  json,     \* the text handed to parseEnvx
  parsed,   \* what parseEnvx returned or threw
  built,    \* what buildEnvxFile returned for the payload json.data
  fpc       \* the set of calls made: "parse", "build"

formatVars == <<json, parsed, built, fpc>>

VARIABLES
  fs,       \* the key files: path -> [exists, bytes]
  keyPath,  \* this.keyPath
  calls,    \* the calls made on the instance
  env,      \* the .env file: [exists, lines]
  envx      \* the container file: [exists, json]

envxVars == <<fs, keyPath, calls, env, envx>>

VARIABLES
  kdfModule,  \* which text of the derivation module is loaded
  draws,      \* the number of randomBytes(16) draws the module has made
  derived     \* the derivations made, in order: arguments and outcome

kdfVars == <<kdfModule, draws, derived>>

VARIABLES
  texts,    \* the text files: path -> [exists, kind, lines, json]
  args      \* the arguments of the encrypt call under way: [envFile, outputPath]

pathVars == <<texts, args>>

VARIABLES
  proc      \* the process of envx run

runVars == <<proc>>

vars == <<cryptoVars, formatVars, envxVars, kdfVars, pathVars, runVars>>

NoArgs == [envFile |-> <<>>, outputPath |-> <<>>]

\* nothing returned yet, nothing altered yet, no file object
NoEncOut ==
  [threw |-> FALSE, error |-> "", nonceMap |-> EmptyObject, values |-> EmptyObject,
   rngCalls |-> 0]

NoTamper == [kind |-> "none", name |-> ""]


(***************************************************************************)
(* The cipher module driven as its tests drive it: encrypt a secret set    *)
(* with a key, optionally alter one entry of the stored container, then    *)
(* decrypt the stored container with some key.                             *)
(***************************************************************************)
Keys == {Fill(KEY_LENGTH, k) : k \in 1..MaxKeys} \cup {Fill(SHORT_KEY_LENGTH, 1)}

\* randomBytes(NONCE_LENGTH) may return any of these, also twice
RngOutputs == {Fill(NONCE_LENGTH, r) : r \in 1..MaxRng}

\* the byte positions and bit masks the tampering touches
TagPositions == {1, TAG_LENGTH}
NoncePositions == {1, NONCE_LENGTH}
Masks == {1, 255}

CryptoInit ==
  /\ plaintext \in SecretSets
  /\ key \in Keys
  /\ encOut = NoEncOut
  /\ nonceMapIn = EmptyObject
  /\ valuesIn = EmptyObject
  /\ tamper = NoTamper
  /\ decKey = <<>>
  /\ decOut = DecryptStart
  /\ cpc = "start"
  /\ json = [wellFormed |-> FALSE, data |-> NoFile] /\ parsed = Rejected("")
  /\ built = NoFile /\ fpc = {}
  /\ fs = [p \in Paths |-> NoSuchFile] /\ keyPath = DEFAULT_KEY_PATH
  /\ calls = [c \in Calls |-> NoCall]
  /\ env = NoEnv /\ envx = NoContainer
  /\ kdfModule = "kdf.ts" /\ draws = 0 /\ derived = <<>>
  /\ texts = [p \in TextPaths |-> NoText] /\ args = NoArgs
  /\ proc = NoProcess

\* const { nonceMap, values } = await encryptValues(plaintext, key)
EncryptValuesCall ==
  /\ cpc = "start"
  /\ \E rng \in [1..Len(ObjectKeys(plaintext)) -> RngOutputs] :
       encOut' = encryptValues(plaintext, key, rng)
  /\ nonceMapIn' = encOut'.nonceMap
  /\ valuesIn' = encOut'.values
  /\ cpc' = "encrypted"
  /\ UNCHANGED <<plaintext, key, tamper, decKey, decOut>>
  /\ UNCHANGED <<formatVars, envxVars, kdfVars, pathVars, runVars>>

\* buf[i] ^= mask
FlipByte(buf, i, mask) == [buf EXCEPT ![i] = BitXor(@, mask)]

Stored == cpc = "encrypted" /\ ~encOut.threw

\* cipherBuffer[TAG_LENGTH + i] ^= mask (test 'rejects tampered ciphertext')
TamperCiphertext ==
  /\ Stored
  /\ \E name \in DOMAIN valuesIn, mask \in Masks :
       LET combined == Base64Decode(valuesIn[name])
       IN \E i \in (TAG_LENGTH + 1)..Len(combined) :
            /\ valuesIn' = [valuesIn EXCEPT ![name] = Base64Encode(FlipByte(combined, i, mask))]
            /\ tamper' = [kind |-> "ciphertext", name |-> name]
  /\ cpc' = "tampered"
  /\ UNCHANGED <<plaintext, key, encOut, nonceMapIn, decKey, decOut>>
  /\ UNCHANGED <<formatVars, envxVars, kdfVars, pathVars, runVars>>

\* cipherBuffer[i] ^= mask for a tag byte (test 'rejects tampered authentication tag')
TamperTag ==
  /\ Stored
  /\ \E name \in DOMAIN valuesIn, mask \in Masks, i \in TagPositions :
       /\ valuesIn' = [valuesIn EXCEPT
                         ![name] = Base64Encode(FlipByte(Base64Decode(@), i, mask))]
       /\ tamper' = [kind |-> "tag", name |-> name]
  /\ cpc' = "tampered"
  /\ UNCHANGED <<plaintext, key, encOut, nonceMapIn, decKey, decOut>>
  /\ UNCHANGED <<formatVars, envxVars, kdfVars, pathVars, runVars>>

\* the stored nonce of one entry altered
TamperNonce ==
  /\ Stored
  /\ \E name \in DOMAIN nonceMapIn, mask \in Masks, i \in NoncePositions :
       /\ nonceMapIn' = [nonceMapIn EXCEPT
                           ![name] = Base64Encode(FlipByte(Base64Decode(@), i, mask))]
       /\ tamper' = [kind |-> "nonce", name |-> name]
  /\ cpc' = "tampered"
  /\ UNCHANGED <<plaintext, key, encOut, valuesIn, decKey, decOut>>
  /\ UNCHANGED <<formatVars, envxVars, kdfVars, pathVars, runVars>>

\* the nonce of one entry removed from the nonce map (test 'rejects missing nonce')
DropNonce ==
  /\ Stored
  /\ \E name \in DOMAIN nonceMapIn :
       /\ nonceMapIn' = [n \in DOMAIN nonceMapIn \ {name} |-> nonceMapIn[n]]
       /\ tamper' = [kind |-> "dropnonce", name |-> name]
  /\ cpc' = "tampered"
  /\ UNCHANGED <<plaintext, key, encOut, valuesIn, decKey, decOut>>
  /\ UNCHANGED <<formatVars, envxVars, kdfVars, pathVars, runVars>>

\* the combined ciphertext of one entry cut below the tag length
TruncateValue ==
  /\ Stored
  /\ \E name \in DOMAIN valuesIn, len \in {0, TAG_LENGTH - 1} :
       /\ valuesIn' = [valuesIn EXCEPT
                         ![name] = Base64Encode(SubSeq(Base64Decode(@), 1, len))]
       /\ tamper' = [kind |-> "truncate", name |-> name]
  /\ cpc' = "tampered"
  /\ UNCHANGED <<plaintext, key, encOut, nonceMapIn, decKey, decOut>>
  /\ UNCHANGED <<formatVars, envxVars, kdfVars, pathVars, runVars>>

\* await decryptValues(values, nonceMap, k)
DecryptValuesCall ==
  /\ cpc \in {"encrypted", "tampered"}
  /\ ~encOut.threw
  /\ \E k \in Keys :
       /\ decKey' = k
       /\ decOut' = decryptValues(valuesIn, nonceMapIn, k)
  /\ cpc' = "decrypted"
  /\ UNCHANGED <<plaintext, key, encOut, nonceMapIn, valuesIn, tamper>>
  /\ UNCHANGED <<formatVars, envxVars, kdfVars, pathVars, runVars>>

CryptoNext ==
  \/ EncryptValuesCall
  \/ TamperCiphertext
  \/ TamperTag
  \/ TamperNonce
  \/ DropNonce
  \/ TruncateValue
  \/ DecryptValuesCall


(***************************************************************************)
(* Claims about the cipher module, checked under SpecCrypto.               *)
(***************************************************************************)
Decrypted == cpc = "decrypted"

\* the entry of the stored container under name, as decryptValues splits it
StoredNonce(name) == Base64Decode(nonceMapIn[name])
StoredCombined(name) == Base64Decode(valuesIn[name])

NonceMissing(name) == name \notin DOMAIN nonceMapIn
TooShort(name) == Len(StoredCombined(name)) < TAG_LENGTH
AuthFails(name, k) ==
  /\ ~NonceMissing(name)
  /\ ~TooShort(name)
  /\ GcmTag(k, StoredNonce(name),
            SubSeq(StoredCombined(name), TAG_LENGTH + 1, Len(StoredCombined(name))))
       # SubSeq(StoredCombined(name), 1, TAG_LENGTH)
Verifies(name, k) == ~NonceMissing(name) /\ ~TooShort(name) /\ ~AuthFails(name, k)

\* C1: decrypting what encryptValues(S, K) returned, with the same 32-byte
\* key K, returns a map equal to S (same names, same values).
C1_RoundTrip ==
  (Decrypted /\ tamper.kind = "none" /\ decKey = key)
    => (~decOut.threw /\ decOut.value = plaintext)

\* C2: if at least one entry of the value map fails (authentication failure,
\* nonce missing from the nonce map, or combined ciphertext shorter than 16
\* bytes), decryptValues throws and returns no plaintext map, even when other
\* entries verified.
C2_AllOrNothing ==
  (Decrypted /\ \E name \in DOMAIN valuesIn :
                  NonceMissing(name) \/ TooShort(name) \/ AuthFails(name, decKey))
    => (decOut.threw /\ decOut.value = EmptyObject)

\* a decryption with a 32-byte key in which one entry fails and another verifies
C2_Witness ==
  /\ Decrypted
  /\ Len(decKey) = KEY_LENGTH
  /\ \E bad \in DOMAIN valuesIn, good \in DOMAIN valuesIn :
       /\ NonceMissing(bad) \/ TooShort(bad) \/ AuthFails(bad, decKey)
       /\ Verifies(good, decKey)
  /\ decOut.threw

\* C3: after the ciphertext bytes, the tag bytes or the nonce of one entry of
\* a container encrypted with K were changed, decryption with K fails
\* entirely: nothing is returned for the untouched entries either.
C3_TamperRejected ==
  (Decrypted /\ tamper.kind \in {"ciphertext", "tag", "nonce"} /\ decKey = key)
    => (decOut.threw /\ decOut.value = EmptyObject)

\* a tampered entry next to an untouched entry that still verifies under K
C3_Witness ==
  /\ Decrypted
  /\ tamper.kind \in {"ciphertext", "tag", "nonce"}
  /\ decKey = key
  /\ \E good \in DOMAIN valuesIn : good # tamper.name /\ Verifies(good, decKey)
  /\ decOut.threw

\* C4: decrypting a non-empty container with a 32-byte key different from the
\* key it was encrypted with fails: an error is raised, no plaintext returned.
C4_WrongKeyRejected ==
  (Decrypted /\ tamper.kind = "none" /\ DOMAIN valuesIn # {}
     /\ Len(decKey) = KEY_LENGTH /\ decKey # key)
    => (decOut.threw /\ decOut.value = EmptyObject)

C4_Witness ==
  /\ Decrypted
  /\ tamper.kind = "none"
  /\ DOMAIN valuesIn # {}
  /\ Len(decKey) = KEY_LENGTH
  /\ decKey # key
  /\ decOut.threw

\* C5: encryptValues and decryptValues called with a key that is not exactly
\* 32 bytes fail before any value is processed: no nonce is generated, no
\* decipher is created, no ciphertext and no plaintext is produced.
C5_KeyLengthGate ==
  /\ (cpc # "start" /\ Len(key) # KEY_LENGTH)
       => /\ encOut.threw
          /\ encOut.rngCalls = 0
          /\ encOut.nonceMap = EmptyObject
          /\ encOut.values = EmptyObject
  /\ (Decrypted /\ Len(decKey) # KEY_LENGTH)
       => /\ decOut.threw
          /\ decOut.decipherCalls = 0
          /\ decOut.value = EmptyObject

\* encryptValues was called with a 16-byte key on a non-empty secret set
C5_Witness ==
  /\ cpc = "encrypted"
  /\ Len(key) # KEY_LENGTH
  /\ DOMAIN plaintext # {}
  /\ encOut.threw

\* C6: whatever the random generator returns, encryptValues never returns a
\* nonce map in which two names share the same nonce: a duplicate nonce drawn
\* within one batch makes the whole encryption fail.
C6_NoncesUnique ==
  (cpc # "start" /\ ~encOut.threw)
    => \A a \in DOMAIN encOut.nonceMap, b \in DOMAIN encOut.nonceMap :
         a # b => encOut.nonceMap[a] # encOut.nonceMap[b]

(***************************************************************************)
(* The format module driven as its tests drive it: a text is parsed, and   *)
(* the object it holds is handed to the builder as the payload.            *)
(***************************************************************************)
FormatInit ==
  /\ json \in JsonTexts
  /\ parsed = Rejected("")
  /\ built = NoFile
  /\ fpc = {}
  /\ plaintext = EmptyObject /\ key = <<>> /\ encOut = NoEncOut
  /\ nonceMapIn = EmptyObject /\ valuesIn = EmptyObject /\ tamper = NoTamper
  /\ decKey = <<>> /\ decOut = DecryptStart /\ cpc = "idle"
  /\ fs = [p \in Paths |-> NoSuchFile] /\ keyPath = DEFAULT_KEY_PATH
  /\ calls = [c \in Calls |-> NoCall]
  /\ env = NoEnv /\ envx = NoContainer
  /\ kdfModule = "kdf.ts" /\ draws = 0 /\ derived = <<>>
  /\ texts = [p \in TextPaths |-> NoText] /\ args = NoArgs
  /\ proc = NoProcess

ParseEnvxCall ==
  /\ "parse" \notin fpc
  /\ parsed' = parseEnvx(json)
  /\ fpc' = fpc \cup {"parse"}
  /\ UNCHANGED <<json, built>>
  /\ UNCHANGED <<cryptoVars, envxVars, kdfVars, pathVars, runVars>>

\* the payload has the three fields its type requires; version and cipher
\* are whatever the object carries
BuildEnvxFileCall ==
  /\ "build" \notin fpc
  /\ json.wellFormed
  /\ json.data.kdf # Absent /\ json.data.nonce_map.present /\ json.data.values.present
  /\ built' = buildEnvxFile(json.data)
  /\ fpc' = fpc \cup {"build"}
  /\ UNCHANGED <<json, parsed>>
  /\ UNCHANGED <<cryptoVars, envxVars, kdfVars, pathVars, runVars>>

FormatNext == ParseEnvxCall \/ BuildEnvxFileCall


\* C7: parseEnvx/validateEnvx rejects every container in which some name is
\* a key of nonce_map but not of values, or of values but not of nonce_map:
\* every container they accept has identical key sets in both maps.
C7_KeySetsEqual ==
  ("parse" \in fpc /\ parsed.accepted)
    => DOMAIN json.data.nonce_map.obj = DOMAIN json.data.values.obj

\* C8: parseEnvx/validateEnvx rejects every container whose version is not
\* the integer 1 or whose cipher is not the supported identifier.
C8_VersionCipherStrict ==
  ("parse" \in fpc /\ parsed.accepted)
    => (json.data.version = JNumber(CURRENT_VERSION) /\ json.data.cipher = JString(CIPHER))

\* a container that is sound except for its version was parsed and rejected
C8_Witness ==
  /\ "parse" \in fpc
  /\ json.wellFormed
  /\ json.data.version = JNumber(2)
  /\ json.data.cipher = JString(CIPHER)
  /\ json.data.kdf = JString("none")
  /\ json.data.nonce_map.present /\ json.data.values.present
  /\ DOMAIN json.data.nonce_map.obj = {"API_KEY"}
  /\ DOMAIN json.data.values.obj = {"API_KEY"}
  /\ ~parsed.accepted
  /\ parsed.error = "ValidationError"

\* C9: for every payload passed to buildEnvxFile, whatever fields it carries
\* at run time, the returned container has version 1 and cipher 'aes-256-gcm'.
C9_BuilderStamps ==
  "build" \in fpc
    => (built.version = JNumber(CURRENT_VERSION) /\ built.cipher = JString(CIPHER))

\* C20: every container accepted by parseEnvx/validateEnvx has each nonce
\* decoding to exactly 12 bytes and each value decoding to at least 16 bytes;
\* a container violating either rule is rejected.
C20_WireRulesEnforced ==
  ("parse" \in fpc /\ parsed.accepted)
    => /\ \A name \in DOMAIN json.data.nonce_map.obj :
            Len(Base64Decode(json.data.nonce_map.obj[name])) = NONCE_LENGTH
       /\ \A name \in DOMAIN json.data.values.obj :
            Len(Base64Decode(json.data.values.obj[name])) >= TAG_LENGTH

\* C21: parseEnvx/validateEnvx rejects every container whose kdf.type is not
\* 'none' and whose salt is absent or does not decode to 16 bytes: every
\* container they accept with such a kdf has a salt of 16 bytes.
C21_KdfSaltValidated ==
  ("parse" \in fpc /\ parsed.accepted /\ json.data.kdf # JString("none"))
    => (json.data.salt.present
        /\ Len(Base64Decode(json.data.salt.str)) = SALT_LENGTH)

\* what the key path may hold before the first call: nothing, a key, or a
\* file of another size
KeyFiles ==
  {NoSuchFile, FileOf(Fill(SHORT_KEY_LENGTH, 9))}
  \cup {FileOf(Fill(KEY_LENGTH, k)) : k \in 1..MaxKeys}

EnvxInit ==
  /\ fs \in [Paths -> KeyFiles]
  /\ keyPath = DEFAULT_KEY_PATH
  /\ calls = [c \in Calls |-> NoCall]
  /\ env = NoEnv /\ envx = NoContainer
  /\ plaintext = EmptyObject /\ key = <<>> /\ encOut = NoEncOut
  /\ nonceMapIn = EmptyObject /\ valuesIn = EmptyObject /\ tamper = NoTamper
  /\ decKey = <<>> /\ decOut = DecryptStart /\ cpc = "idle"
  /\ json = [wellFormed |-> FALSE, data |-> NoFile] /\ parsed = Rejected("")
  /\ built = NoFile /\ fpc = {}
  /\ kdfModule = "kdf.ts" /\ draws = 0 /\ derived = <<>>
  /\ texts = [p \in TextPaths |-> NoText] /\ args = NoArgs
  /\ proc = NoProcess

\* envx.init(mode, password) is called
InitCall(c) ==
  /\ calls[c].pc = "idle"
  /\ \A d \in Calls : d < c => calls[d].pc # "idle"
  /\ \E mode \in {"random", "password"}, password \in Passwords,
        k \in 1..MaxKeys, r \in 1..MaxRng :
       LET step == InitBegin(fs, keyPath, mode, password,
                             Fill(KEY_LENGTH, k), Fill(SALT_LENGTH, r))
       IN /\ fs' = step.fs
          /\ calls' = [calls EXCEPT ![c] = step.call]
  /\ UNCHANGED <<keyPath, env, envx>>
  /\ UNCHANGED <<cryptoVars, formatVars, kdfVars, pathVars, runVars>>

\* the promise of deriveKey resolves and init continues
InitContinue(c) ==
  /\ calls[c].op = "init"
  /\ calls[c].pc = "await deriveKey"
  /\ LET step == InitResume(fs, keyPath, calls[c])
     IN /\ fs' = step.fs
        /\ calls' = [calls EXCEPT ![c] = step.call]
  /\ UNCHANGED <<keyPath, env, envx>>
  /\ UNCHANGED <<cryptoVars, formatVars, kdfVars, pathVars, runVars>>

EnvxNext == \E c \in Calls : InitCall(c) \/ InitContinue(c)

(***************************************************************************)
(* The facade driven through encrypt, decrypt, rotateKey and verify on one *)
(* instance.  Calls may overlap: a call that has reached an await resumes  *)
(* at any later step.                                                      *)
(***************************************************************************)
\* the texts the .env file may hold, as lines NAME=value
EnvTexts ==
  {<<>>,
   <<[name |-> "__proto__", value |-> <<233, 97>>], [name |-> "API_KEY", value |-> <<>>],
     [name |-> "DEBUG", value |-> <<>>], [name |-> "API_KEY", value |-> <<233, 97>>]>>}

\* what randomBytes(NONCE_LENGTH) returns call after call, starting at r
RngFrom(r) ==
  [i \in 1..Len(NameOrder) |-> Fill(NONCE_LENGTH, ((r + i - 2) % MaxRng) + 1)]

\* a container file written earlier by encrypt with the first key
SealedContainer ==
  ContainerOf(JsonStringify(buildEnvxFile(Payload(
    encryptValues(ParseEnv(<<[name |-> "API_KEY", value |-> <<233, 97>>],
                             [name |-> "DEBUG", value |-> <<>>]>>, EmptyObject),
                  Fill(KEY_LENGTH, 1), RngFrom(1))))))

\* what the container path may hold before the first call: nothing, a text
\* that is not JSON, a container of version 2, a container of the right
\* shape whose value no key authenticates, a container sealed with a key
StoredContainers ==
  {NoContainer,
   ContainerOf([wellFormed |-> FALSE, data |-> NoFile]),
   ContainerOf(JsonStringify(
     [version |-> JNumber(2), cipher |-> JString(CIPHER), kdf |-> JString("none"),
      salt |-> NoSalt, nonce_map |-> JMap(EmptyObject), values |-> JMap(EmptyObject)])),
   ContainerOf(JsonStringify(
     [version |-> JNumber(CURRENT_VERSION), cipher |-> JString(CIPHER),
      kdf |-> JString("none"), salt |-> NoSalt,
      nonce_map |-> JMap([n \in {"API_KEY"} |-> Base64Encode(Fill(NONCE_LENGTH, 1))]),
      values |-> JMap([n \in {"API_KEY"} |-> Base64Encode(Fill(TAG_LENGTH, 2))])])),
   SealedContainer}

\* what a key path may hold before the first call: nothing, a file of
\* another size, the first key
StoredKeys ==
  {NoSuchFile, FileOf(Fill(SHORT_KEY_LENGTH, 9)), FileOf(Fill(KEY_LENGTH, 1))}

FacadeInit ==
  /\ fs \in [Paths -> StoredKeys]
  /\ keyPath = DEFAULT_KEY_PATH
  /\ calls = [c \in Calls |-> NoCall]
  /\ env \in {NoEnv} \cup {EnvOf(t) : t \in EnvTexts}
  /\ envx \in StoredContainers
  /\ plaintext = EmptyObject /\ key = <<>> /\ encOut = NoEncOut
  /\ nonceMapIn = EmptyObject /\ valuesIn = EmptyObject /\ tamper = NoTamper
  /\ decKey = <<>> /\ decOut = DecryptStart /\ cpc = "idle"
  /\ json = [wellFormed |-> FALSE, data |-> NoFile] /\ parsed = Rejected("")
  /\ built = NoFile /\ fpc = {}
  /\ kdfModule = "kdf.ts" /\ draws = 0 /\ derived = <<>>
  /\ texts = [p \in TextPaths |-> NoText] /\ args = NoArgs
  /\ proc = NoProcess

\* call c may be made now: the calls are made in the order of their numbers
MayCall(c) ==
  /\ calls[c].pc = "idle"
  /\ \A d \in Calls : d < c => calls[d].pc # "idle"

\* call c takes the step whose outcome is step; every other call that is
\* between its start and its end has now run alongside another call
Take(c, step) ==
  /\ fs' = step.fs
  /\ envx' = step.envx
  /\ keyPath' = step.keyPath
  /\ calls' = [d \in Calls |->
                 IF d = c
                 THEN [step.call EXCEPT !.alone = calls[c].alone
                                                   /\ \A e \in Calls \ {c} :
                                                        calls[e].pc \in {"idle", "done"}]
                 ELSE IF calls[d].pc \notin {"idle", "done"}
                 THEN [calls[d] EXCEPT !.alone = FALSE]
                 ELSE calls[d]]
  /\ UNCHANGED env
  /\ UNCHANGED <<cryptoVars, formatVars, kdfVars, pathVars, runVars>>

\* envx.encrypt('.env') is called
EncryptCall(c) ==
  /\ MayCall(c)
  /\ Take(c, EncryptBegin(fs, env, envx, keyPath, RngFrom(c)))

\* the promise of encryptValues resolves in encrypt or in rotateKey
EncryptContinue(c) ==
  /\ calls[c].op \in {"encrypt", "rotateKey"}
  /\ calls[c].pc = "await encryptValues"
  /\ \E writable \in BOOLEAN :
       Take(c, EncryptResume(fs, envx, keyPath, calls[c], writable))

\* envx.decrypt('.envx') is called
DecryptCall(c) ==
  /\ MayCall(c)
  /\ Take(c, DecryptBegin([NoCall EXCEPT !.op = "decrypt"], fs, envx, keyPath))

\* the promise of decryptValues resolves in decrypt or in rotateKey
DecryptContinue(c) ==
  /\ calls[c].op \in {"decrypt", "rotateKey"}
  /\ calls[c].pc = "await decryptValues"
  /\ Take(c, DecryptResume(fs, envx, keyPath, calls[c],
                           IF calls[c].op = "decrypt" THEN "done"
                           ELSE "await this.decrypt"))

\* envx.rotateKey('.envx', newKeyPath) is called
RotateKeyCall(c) ==
  /\ MayCall(c)
  /\ \E newKeyPath \in Paths :
       Take(c, RotateKeyBegin(fs, envx, keyPath, newKeyPath))

\* this.decrypt has returned to rotateKey
RotateKeyDecrypted(c) ==
  /\ calls[c].op = "rotateKey"
  /\ calls[c].pc = "await this.decrypt"
  /\ \E k \in 1..MaxKeys :
       Take(c, RotateKeyContinue(fs, envx, keyPath, calls[c],
                                 Fill(KEY_LENGTH, k), RngFrom(c)))

\* envx.verify('.envx') is called
VerifyCall(c) ==
  /\ MayCall(c)
  /\ Take(c, Verify(fs, envx, keyPath))

FacadeNext ==
  \E c \in Calls :
    \/ EncryptCall(c)
    \/ EncryptContinue(c)
    \/ DecryptCall(c)
    \/ DecryptContinue(c)
    \/ RotateKeyCall(c)
    \/ RotateKeyDecrypted(c)
    \/ VerifyCall(c)

(***************************************************************************)
(* The derivation module driven as its tests drive it: a process loads one *)
(* text of the module and derives keys, one call after the other.          *)
(***************************************************************************)
KdfPassword == <<112, 119>>

\* a salt buffer of the caller
CallerSalt == SaltBuffer(Fill(SALT_LENGTH, 200))

\* the params argument of the Argon2id functions: undefined, the defaults,
\* a time cost the library refuses, each with or without a salt
Argon2Arguments ==
  {NoParams}
  \cup {[DEFAULT_ARGON2_PARAMS EXCEPT !.time = t, !.salt = s] :
          t \in {DEFAULT_ARGON2_PARAMS.time, 0}, s \in {NoSaltBuffer, CallerSalt}}

\* the params argument of the scrypt functions, as in the tests (N: 1024,
\* dkLen: 32 or 64), and with an N that is no power of two
ScryptArguments ==
  {NoParams}
  \cup {[DEFAULT_SCRYPT_PARAMS EXCEPT !.N = n, !.dkLen = d, !.salt = s] :
          n \in {1024, 1000}, d \in {KEY_LENGTH, 2 * KEY_LENGTH},
          s \in {NoSaltBuffer, CallerSalt}}

KdfInit ==
  /\ kdfModule \in {"kdf.ts", "part_012"}
  /\ draws = (IF kdfModule = "part_012" THEN 2 ELSE 0)
  /\ derived = <<>>
  /\ plaintext = EmptyObject /\ key = <<>> /\ encOut = NoEncOut
  /\ nonceMapIn = EmptyObject /\ valuesIn = EmptyObject /\ tamper = NoTamper
  /\ decKey = <<>> /\ decOut = DecryptStart /\ cpc = "idle"
  /\ json = [wellFormed |-> FALSE, data |-> NoFile] /\ parsed = Rejected("")
  /\ built = NoFile /\ fpc = {}
  /\ fs = [p \in Paths |-> NoSuchFile] /\ keyPath = DEFAULT_KEY_PATH
  /\ calls = [c \in Calls |-> NoCall]
  /\ env = NoEnv /\ envx = NoContainer
  /\ texts = [p \in TextPaths |-> NoText] /\ args = NoArgs
  /\ proc = NoProcess

\* one derivation is made and recorded with its arguments
Derive(fn, type, params, outcome) ==
  /\ Len(derived) < MaxDerivations
  /\ derived' = Append(derived,
                       [fn |-> fn, type |-> type, password |-> KdfPassword,
                        params |-> params, out |-> outcome.result,
                        callerSalt |-> outcome.callerSalt])
  /\ draws' = outcome.draws
  /\ UNCHANGED kdfModule
  /\ UNCHANGED <<cryptoVars, formatVars, envxVars, pathVars, runVars>>

DeriveKeyArgon2idCall ==
  /\ kdfModule = "kdf.ts"
  /\ \E params \in Argon2Arguments :
       Derive("deriveKeyArgon2id", "argon2id", params,
              deriveKeyArgon2id(KdfPassword, params, draws))

DeriveKeyScryptCall ==
  /\ kdfModule = "kdf.ts"
  /\ \E params \in ScryptArguments :
       Derive("deriveKeyScrypt", "scrypt", params,
              deriveKeyScrypt(KdfPassword, params, draws))

DeriveKeyCall ==
  /\ kdfModule = "kdf.ts"
  /\ \/ \E params \in Argon2Arguments :
          Derive("deriveKey", "argon2id", params,
                 deriveKey(KdfPassword, "argon2id", params, draws))
     \/ \E params \in ScryptArguments :
          Derive("deriveKey", "scrypt", params,
                 deriveKey(KdfPassword, "scrypt", params, draws))

DeriveKeyArgon2idCall_part012 ==
  /\ kdfModule = "part_012"
  /\ \E params \in Argon2Arguments :
       Derive("deriveKeyArgon2id", "argon2id", params,
              deriveKeyArgon2id_part012(KdfPassword, params, draws))

DeriveKeyScryptCall_part012 ==
  /\ kdfModule = "part_012"
  /\ \E params \in ScryptArguments :
       Derive("deriveKeyScrypt", "scrypt", params,
              deriveKeyScrypt_part012(KdfPassword, params, draws))

DeriveKeyCall_part012 ==
  /\ kdfModule = "part_012"
  /\ \E method \in {"argon2id", "scrypt"} :
       Derive("deriveKey", method, NoParams,
              deriveKey_part012(KdfPassword, method, draws))

KdfNext ==
  \/ DeriveKeyArgon2idCall
  \/ DeriveKeyScryptCall
  \/ DeriveKeyCall
  \/ DeriveKeyArgon2idCall_part012
  \/ DeriveKeyScryptCall_part012
  \/ DeriveKeyCall_part012

(***************************************************************************)
(* encrypt driven with its two path arguments, one call after the other.   *)
(* The file read is a .env text or is missing.                             *)
(***************************************************************************)
\* the paths handed to encrypt as envFile
InputPaths == {DOT_ENV, DOT_ENV_DEV}

PathsInit ==
  /\ fs \in {[p \in Paths |-> IF p = DEFAULT_KEY_PATH THEN k ELSE NoSuchFile] :
               k \in StoredKeys}
  /\ keyPath = DEFAULT_KEY_PATH
  /\ calls = [c \in Calls |-> NoCall]
  /\ texts \in {[p \in TextPaths |->
                   IF p = DOT_ENV THEN a
                   ELSE IF p = DOT_ENV_DEV THEN b
                   ELSE IF p = DOT_ENVX THEN c
                   ELSE NoText] :
                  a \in {NoText} \cup {EnvText(t) : t \in EnvTexts},
                  b \in {NoText} \cup {EnvText(t) : t \in EnvTexts},
                  c \in {NoText, JsonText(SealedContainer.json)}}
  /\ args = NoArgs
  /\ env = NoEnv /\ envx = NoContainer
  /\ plaintext = EmptyObject /\ key = <<>> /\ encOut = NoEncOut
  /\ nonceMapIn = EmptyObject /\ valuesIn = EmptyObject /\ tamper = NoTamper
  /\ decKey = <<>> /\ decOut = DecryptStart /\ cpc = "idle"
  /\ json = [wellFormed |-> FALSE, data |-> NoFile] /\ parsed = Rejected("")
  /\ built = NoFile /\ fpc = {}
  /\ kdfModule = "kdf.ts" /\ draws = 0 /\ derived = <<>>
  /\ proc = NoProcess

\* envx.encrypt(envFile, outputPath) is called; the call before it has ended
EncryptPathsCall ==
  /\ calls[1].pc \in {"idle", "done"}
  /\ \E envFile \in InputPaths, outputPath \in {NoOutputPath} \cup TextPaths :
       /\ texts[envFile].kind # "json"
       /\ LET step == EncryptPathsBegin(fs, texts, keyPath, envFile, RngFrom(1))
          IN /\ texts' = step.texts
             /\ calls' = [calls EXCEPT ![1] = step.call]
       /\ args' = [envFile |-> envFile, outputPath |-> outputPath]
  /\ UNCHANGED <<fs, keyPath, env, envx>>
  /\ UNCHANGED <<cryptoVars, formatVars, kdfVars, runVars>>

\* the promise of encryptValues resolves
EncryptPathsContinue ==
  /\ calls[1].op = "encrypt"
  /\ calls[1].pc = "await encryptValues"
  /\ \E writable \in BOOLEAN :
       LET step == EncryptPathsResume(fs, texts, keyPath, calls[1],
                                      args.envFile, args.outputPath, writable)
       IN /\ texts' = step.texts
          /\ calls' = [calls EXCEPT ![1] = step.call]
  /\ UNCHANGED <<fs, keyPath, env, envx, args>>
  /\ UNCHANGED <<cryptoVars, formatVars, kdfVars, runVars>>

PathsNext == EncryptPathsCall \/ EncryptPathsContinue

(***************************************************************************)
(* envx run: one process, from the call of runCommand to process.exit.     *)
(***************************************************************************)
\* the command line after the options
CommandLines == {<<>>, <<"node", "server.js">>}

\* what the child reports when it ends: an exit code (-1 for null) and a
\* signal ("" for null)
ChildEndings ==
  {[code |-> 0, signal |-> ""], [code |-> 2, signal |-> ""],
   [code |-> -1, signal |-> "SIGTERM"], [code |-> -1, signal |-> "SIGKILL"]}

RunInit ==
  /\ fs \in [Paths -> StoredKeys]
  /\ keyPath = DEFAULT_KEY_PATH
  /\ calls = [c \in Calls |-> NoCall]
  /\ env = NoEnv
  /\ envx \in StoredContainers
  /\ proc = NoProcess
  /\ plaintext = EmptyObject /\ key = <<>> /\ encOut = NoEncOut
  /\ nonceMapIn = EmptyObject /\ valuesIn = EmptyObject /\ tamper = NoTamper
  /\ decKey = <<>> /\ decOut = DecryptStart /\ cpc = "idle"
  /\ json = [wellFormed |-> FALSE, data |-> NoFile] /\ parsed = Rejected("")
  /\ built = NoFile /\ fpc = {}
  /\ kdfModule = "kdf.ts" /\ draws = 0 /\ derived = <<>>
  /\ texts = [p \in TextPaths |-> NoText] /\ args = NoArgs

\* runCommand(cmdArgs, keyPath, '.envx') is called
RunCommandCall ==
  /\ proc.pc = "idle"
  /\ \E cmdArgs \in CommandLines, keyPathArg \in Paths :
       LET step == RunCommandBegin(fs, envx, keyPath, cmdArgs, keyPathArg)
       IN /\ proc' = step.proc
          /\ keyPath' = step.keyPath
          /\ calls' = [calls EXCEPT ![1] = step.call]
  /\ UNCHANGED <<fs, env, envx>>
  /\ UNCHANGED <<cryptoVars, formatVars, kdfVars, pathVars>>

\* the promise of decryptValues resolves inside envx.decrypt
RunDecryptContinue ==
  /\ proc.pc = "await envx.decrypt"
  /\ DecryptContinue(1)

\* the promise of envx.decrypt is settled and runCommand continues
RunCommandContinue ==
  /\ proc.pc = "await envx.decrypt"
  /\ calls[1].pc = "done"
  /\ proc' = RunCommandResume(proc, calls[1])
  /\ UNCHANGED envxVars
  /\ UNCHANGED <<cryptoVars, formatVars, kdfVars, pathVars>>

\* the child ends
ChildExitEvent ==
  /\ proc.pc = "child running"
  /\ \E ending \in ChildEndings : proc' = ChildExit(proc, ending.code, ending.signal)
  /\ UNCHANGED envxVars
  /\ UNCHANGED <<cryptoVars, formatVars, kdfVars, pathVars>>

\* the child could not be started
ChildErrorEvent ==
  /\ proc.pc = "child running"
  /\ proc' = ChildError(proc)
  /\ UNCHANGED envxVars
  /\ UNCHANGED <<cryptoVars, formatVars, kdfVars, pathVars>>

RunNext ==
  \/ RunCommandCall
  \/ RunDecryptContinue
  \/ RunCommandContinue
  \/ ChildExitEvent
  \/ ChildErrorEvent

(***************************************************************************)
(* The specifications.  Each drives one part and leaves the others idle.   *)
(***************************************************************************)
SpecCrypto == CryptoInit /\ [][CryptoNext]_vars

SpecFormat == FormatInit /\ [][FormatNext]_vars

SpecEnvx == EnvxInit /\ [][EnvxNext]_vars

SpecFacade == FacadeInit /\ [][FacadeNext]_vars

\* init, encrypt, decrypt, rotateKey and verify on one instance
OverlapNext == FacadeNext \/ EnvxNext

SpecOverlap == FacadeInit /\ [][OverlapNext]_vars

SpecKdf == KdfInit /\ [][KdfNext]_vars

SpecPaths == PathsInit /\ [][PathsNext]_vars

SpecRun == RunInit /\ [][RunNext]_vars

\* the event loop runs every callback that is due: a settled promise is
\* taken up and the child's events are delivered
SpecRunFair == SpecRun /\ WF_vars(RunNext)

\* C10: when a file already exists at the configured key path, init (random
\* or password mode) fails with a file-exists error and the existing key
\* file is left unchanged.
C10_InitNeverOverwrites ==
  [][\A c \in Calls :
       (calls[c].pc = "idle" /\ calls'[c].pc # "idle" /\ fs[keyPath].exists)
         => (calls'[c].result = "FileExistsError" /\ calls'[c].pc = "done" /\ fs' = fs)]_vars

\* init was called while a key file existed, and failed with the file-exists error
C10_Witness ==
  \E c \in Calls :
    /\ calls[c].op = "init"
    /\ calls[c].result = "FileExistsError"
    /\ fs[keyPath].exists

\* C11: init in password mode requires a non-empty password: with no
\* password or a zero-length password buffer it fails and writes no key
\* file; only a non-empty password leads to a derived key being written.
C11_PasswordRequired ==
  \A c \in Calls :
    (calls[c].op = "init" /\ calls[c].pc \in {"await deriveKey", "done"}
       /\ calls[c].salt # <<>>)
      => calls[c].password # <<>>

\* call c is made at this step, as one of the operations in ops
Called(c, ops) == calls[c].pc = "idle" /\ calls'[c].op \in ops

\* call c ends at this step
Ends(c) == calls[c].pc # "done" /\ calls'[c].pc = "done"

\* C12: encrypt or decrypt called while no file exists at the configured key
\* path fails with the missing-key error, creates no key file and writes no
\* container file.
C12_NoImplicitInit ==
  [][\A c \in Calls :
       (Called(c, {"encrypt", "decrypt"}) /\ ~fs[keyPath].exists)
         => /\ calls'[c].pc = "done"
            /\ calls'[c].result = "MissingKeyError"
            /\ fs' = fs /\ envx' = envx]_vars

\* the input of the call made at this step is there: the .env file for
\* encrypt, a container that parses for decrypt and rotateKey, and for
\* rotateKey a free newKeyPath
InputInOrder(c) ==
  /\ calls'[c].op = "encrypt" => env.exists
  /\ calls'[c].op \in {"decrypt", "rotateKey"}
       => (envx.exists /\ parseEnvx(envx.json).accepted)
  /\ calls'[c].op = "rotateKey" => ~fs[calls'[c].newKeyPath].exists

\* C12, amended: encrypt or decrypt called while no file exists at the
\* configured key path fails, creates no key file and writes no container
\* file; the error is the missing-key error whenever the input is in order.
C12_NoImplicitInitGivenInput ==
  [][\A c \in Calls :
       (Called(c, {"encrypt", "decrypt"}) /\ ~fs[keyPath].exists)
         => /\ calls'[c].pc = "done"
            /\ calls'[c].result # "ok"
            /\ InputInOrder(c) => calls'[c].result = "MissingKeyError"
            /\ fs' = fs /\ envx' = envx]_vars

\* encrypt of an existing .env file and decrypt of a sound container have
\* both failed for want of a key file
C12_Witness ==
  /\ ~fs[keyPath].exists
  /\ \E c, d \in Calls :
       /\ calls[c].op = "encrypt" /\ calls[c].result = "MissingKeyError"
       /\ calls[d].op = "decrypt" /\ calls[d].result = "MissingKeyError"

\* C13: when the key file exists but does not hold exactly 32 bytes, encrypt,
\* decrypt and rotateKey each fail with the invalid-key-length error, write
\* no container, create no new key file and return no plaintext.
C13_KeyFileLength ==
  [][\A c \in Calls :
       (/\ Called(c, {"encrypt", "decrypt", "rotateKey"})
        /\ fs[keyPath].exists
        /\ Len(fs[keyPath].bytes) # KEY_LENGTH)
         => /\ calls'[c].pc = "done"
            /\ calls'[c].result = "ValidationError"
            /\ calls'[c].message = "Invalid key file"
            /\ fs' = fs /\ envx' = envx]_vars

\* C13, amended: when the key file exists but does not hold exactly 32
\* bytes, encrypt, decrypt and rotateKey each fail, write no container,
\* create no new key file and return no plaintext; the error is the
\* invalid-key-length error whenever the input is in order.
C13_KeyFileLengthGivenInput ==
  [][\A c \in Calls :
       (/\ Called(c, {"encrypt", "decrypt", "rotateKey"})
        /\ fs[keyPath].exists
        /\ Len(fs[keyPath].bytes) # KEY_LENGTH)
         => /\ calls'[c].pc = "done"
            /\ calls'[c].result # "ok"
            /\ InputInOrder(c) => (/\ calls'[c].result = "ValidationError"
                                   /\ calls'[c].message = "Invalid key file")
            /\ fs' = fs /\ envx' = envx]_vars

\* rotateKey of a sound container to a free path has failed on a key file
\* of 16 bytes
C13_Witness ==
  \E c \in Calls :
    /\ calls[c].op = "rotateKey"
    /\ calls[c].message = "Invalid key file"
    /\ Len(fs[keyPath].bytes) = SHORT_KEY_LENGTH
    /\ ~fs[calls[c].newKeyPath].exists

\* C14: in encrypt, decrypt and rotateKey, every key buffer the call holds
\* has been zero-filled by the time the call returns or raises.
C14_KeyHygiene ==
  \A c \in Calls :
    (calls[c].op \in {"encrypt", "decrypt", "rotateKey"} /\ calls[c].pc = "done")
      => \A i \in 1..Len(calls[c].held) :
           calls[c].held[i] = Fill(Len(calls[c].held[i]), 0)

C16_RotationPreservesSecrets ==
  [][\A c \in Calls :
       (/\ Ends(c)
        /\ calls'[c].op = "rotateKey"
        /\ calls'[c].result = "ok"
        /\ calls'[c].alone)
         => /\ fs'[calls'[c].newKeyPath].exists
            /\ Len(fs'[calls'[c].newKeyPath].bytes) = KEY_LENGTH
            /\ envx'.exists
            /\ parseEnvx(envx'.json).accepted
            /\ LET again == decryptValues(envx'.json.data.values.obj,
                                          envx'.json.data.nonce_map.obj,
                                          fs'[calls'[c].newKeyPath].bytes)
               IN ~again.threw /\ again.value = calls'[c].secrets]_vars

\* a rotation to a key other than the old one succeeded on a container that
\* holds two secrets
C16_Witness ==
  \E c \in Calls :
    /\ calls[c].op = "rotateKey" /\ calls[c].pc = "done" /\ calls[c].result = "ok"
    /\ calls[c].alone
    /\ DOMAIN calls[c].secrets = {"API_KEY", "DEBUG"}
    /\ fs[calls[c].newKeyPath] # fs[calls[c].oldKeyPath]

\* C17: decrypt and verify are read-only: whether they succeed or fail, no
\* step of theirs changes the key files, the container file, the .env file
\* or this.keyPath.
C17_ReadOnly ==
  [][\A c \in Calls :
       (calls'[c] # calls[c] /\ calls'[c].op \in {"decrypt", "verify"})
         => (fs' = fs /\ envx' = envx /\ env' = env /\ keyPath' = keyPath)]_vars

\* a decrypt has failed authentication and a verify has run
C17_Witness ==
  \E c, d \in Calls :
    /\ calls[c].op = "decrypt" /\ calls[c].pc = "done"
    /\ calls[c].result = "DecryptionError"
    /\ calls[d].op = "verify" /\ calls[d].pc = "done"

NoSaltGiven(i) == ~derived[i].params.salt.given

\* the key length the derivation with number i was asked for
AskedLength(i) ==
  IF derived[i].type = "argon2id" \/ ~derived[i].params.defined THEN KEY_LENGTH
  ELSE derived[i].params.dkLen

C23_FreshSaltPerCall ==
  \A i \in 1..Len(derived), j \in 1..Len(derived) :
    (i < j /\ NoSaltGiven(i) /\ NoSaltGiven(j)
       /\ ~derived[i].out.threw /\ ~derived[j].out.threw)
      => /\ Len(Base64Decode(derived[i].out.meta.salt)) = SALT_LENGTH
         /\ Len(Base64Decode(derived[j].out.meta.salt)) = SALT_LENGTH
         /\ derived[i].out.meta.salt # derived[j].out.meta.salt

\* the key derived again from the password, the returned salt buffer and
\* the returned parameters of the derivation with number i
DerivedAgain(i) ==
  LET d == derived[i]
      again == [d.out.meta.params EXCEPT !.defined = TRUE,
                                         !.salt = SaltBuffer(d.out.salt)]
  IN IF kdfModule = "kdf.ts"
     THEN deriveKey(d.password, d.type, again, draws).result.key
     ELSE IF d.type = "argon2id"
     THEN deriveKeyArgon2id_part012(d.password, again, draws).result.key
     ELSE deriveKeyScrypt_part012(d.password, again, draws).result.key

\* C29: for every successful derivation, with a generated or a supplied
\* salt, the returned salt buffer encodes to the salt string of the returned
\* metadata, deriving again with the same password, the returned salt and
\* the returned parameters yields the same key, and a salt buffer supplied
\* by the caller is not altered.
C29_ReturnedSaltIsUsedSalt ==
  \A i \in 1..Len(derived) :
    ~derived[i].out.threw
      => /\ Base64Encode(derived[i].out.salt) = derived[i].out.meta.salt
         /\ DerivedAgain(i) = derived[i].out.key
         /\ derived[i].callerSalt = derived[i].params.salt

\* C24: for every input path and every choice of output path, the default
\* one included, no step of encrypt changes the file at the input path.
C24_InputUnchanged ==
  [][(calls'[1] # calls[1] /\ calls'[1].op = "encrypt")
       => texts'[args'.envFile] = texts[args'.envFile]]_vars

\* C25: no call changes in-memory state of the instance that another call
\* reads: this.keyPath is the same after every step as before it.
C25_NoSharedMutableState ==
  [][keyPath' = keyPath]_vars

\* C26: whenever rotateKey, called with a free newKeyPath and running
\* alone, ends with an error, no file exists at newKeyPath, the container
\* is unchanged and this.keyPath is still the old path.
C26_RotateAtomicOnFailure ==
  [][\A c \in Calls :
       (/\ Ends(c)
        /\ calls'[c].op = "rotateKey"
        /\ calls'[c].result \notin {"ok", "FileExistsError"}
        /\ calls'[c].alone)
         => /\ ~fs'[calls'[c].newKeyPath].exists
            /\ envx' = envx
            /\ keyPath' = (IF calls'[c].oldKeyPath # "" THEN calls'[c].oldKeyPath
                           ELSE keyPath)]_vars

\* C27: a key file that exists at a path is never replaced by a later write
\* of init or rotateKey, also when the calls overlap at their awaits.
C27_KeyFileNeverReplaced ==
  [][\A p \in Paths : fs[p].exists => fs'[p] = fs[p]]_vars

\* C28: when one encrypt and one rotateKey on the instance have both
\* succeeded, overlapping or not, the container decrypts with the key at
\* this.keyPath to the secrets of the .env file.
C28_EncryptRotateSerializable ==
  \A c \in Calls, d \in Calls :
    (/\ calls[c].op = "encrypt" /\ calls[c].pc = "done" /\ calls[c].result = "ok"
     /\ calls[d].op = "rotateKey" /\ calls[d].pc = "done" /\ calls[d].result = "ok"
     /\ \A e \in Calls \ {c, d} : calls[e].pc = "idle")
      => /\ envx.exists
         /\ parseEnvx(envx.json).accepted
         /\ fs[keyPath].exists
         /\ LET opened == decryptValues(envx.json.data.values.obj,
                                        envx.json.data.nonce_map.obj,
                                        fs[keyPath].bytes)
            IN ~opened.threw /\ opened.value = ParseEnv(env.lines, EmptyObject)

\* the whole container decrypts with the key at the key path handed to
\* runCommand
DecryptsWhole ==
  /\ envx.exists
  /\ parseEnvx(envx.json).accepted
  /\ ~loadKey(fs, keyPath).threw
  /\ ~decryptValues(envx.json.data.values.obj, envx.json.data.nonce_map.obj,
                    fs[keyPath].bytes).threw

\* C30: runCommand has spawned the child only if envx.decrypt returned the
\* secrets of the whole container; when the container is missing, invalid
\* or not decryptable, the process ends with exit code 1 and without a child.
C30_SpawnOnlyAfterDecrypt ==
  /\ [](proc.spawned => (calls[1].result = "ok" /\ DecryptsWhole))
  /\ (proc.pc # "idle" /\ ~DecryptsWhole)
       ~> (proc.exited /\ proc.exitCode = 1 /\ ~proc.spawned)

\* the child runs with the two secrets of the container in its environment
C30_Witness ==
  /\ proc.spawned
  /\ proc.pc = "child running"
  /\ DOMAIN proc.childEnv = {"API_KEY", "DEBUG"}

====
